---- MODULE Spec2Model ----
(***************************************************************************)
(* Portfolio risk metrics engine of RiskAdvisor (app/utils/calculations.py) *)
(* as a state machine: a caller picks one of the pure functions and an     *)
(* input, the function runs to completion, the caller takes the result.    *)
(*                                                                         *)
(* Numbers.  A Python/numpy float is modelled by the real number it stands *)
(* for, written as a fraction [n, d] in lowest terms with d > 0.  The      *)
(* three non-finite floats are the fractions with d = 0: 1/0 is inf, -1/0  *)
(* is -inf and 0/0 is nan.  Square roots are taken down to the grid        *)
(* 1/SqrtScale.  round(x, k) rounds the real number half to even.          *)
(***************************************************************************)
EXTENDS Integers, Sequences, FiniteSets, TLC

VARIABLES pc,     \* "idle": no call in progress; "done": fn has returned
          fn,     \* the function called last
          args,   \* its argument
          ret,    \* what it returned or raised
          frame   \* the locals of analyze_portfolio_risk when it returned

vars == <<pc, fn, args, ret, frame>>

---------------------------------------------------------------------------
(* Bounds of the model *)

\* conc, corr and volatility inputs are multiples of 1/GridDen
GridDen == 2
\* weight tuples given to calculate_risk_score are multiples of 1/WeightDen
WeightDen == 2
\* resolution of a modelled square root
SqrtScale == 100
\* prices given to calculate_returns are 0..MaxPrice, in series of at most MaxPrices
MaxPrice == 2
MaxPrices == 4
\* calculate_correlation is given at most MaxSeries series of at most MaxReturns returns
MaxSeries == 3
MaxReturns == 3
\* analyze_portfolio_risk is given at most MaxHoldings holdings
MaxHoldings == 3
\* calculate_hhi is given at most MaxWeights weights
MaxWeights == 3
\* analyze_all_stocks is given at most MaxStocks holdings
MaxStocks == 2
\* the symbols given to the validator have at most MaxSymbolLen characters, one
\* over-long symbol aside
MaxSymbolLen == 2

---------------------------------------------------------------------------
(* Real arithmetic on fractions *)

Abs(x) == IF x < 0 THEN -x ELSE x

Sign(x) == IF x < 0 THEN -1 ELSE IF x > 0 THEN 1 ELSE 0

RECURSIVE GCD(_, _)
GCD(a, b) == IF b = 0 THEN a ELSE GCD(b, a % b)

\* n/d in lowest terms; d = 0 gives inf, -inf or nan
Rat(n, d) ==
    IF d = 0 THEN [n |-> Sign(n), d |-> 0]
    ELSE LET g == GCD(Abs(n), Abs(d))
             s == Sign(d)
         IN  [n |-> (s * n) \div g, d |-> (s * d) \div g]

Zero == [n |-> 0, d |-> 1]
One == [n |-> 1, d |-> 1]
NaN == [n |-> 0, d |-> 0]
Inf == [n |-> 1, d |-> 0]
NegInf == [n |-> -1, d |-> 0]

IsFinite(x) == x.d # 0

RInt(k) == [n |-> k, d |-> 1]
RNeg(x) == [n |-> -x.n, d |-> x.d]
\* inf + inf = inf, inf - inf = nan, nan + x = nan
RAdd(x, y) ==
    IF x.d # 0 /\ y.d # 0
    THEN LET g == GCD(x.d, y.d)
         IN  Rat(x.n * (y.d \div g) + y.n * (x.d \div g), (x.d \div g) * y.d)
    ELSE IF x.d = 0 /\ y.d = 0 THEN (IF x.n = y.n THEN x ELSE NaN)
    ELSE IF x.d = 0 THEN x ELSE y
RSub(x, y) == RAdd(x, RNeg(y))
RMul(x, y) ==
    IF x.d = 0 \/ y.d = 0 THEN Rat(Sign(x.n) * Sign(y.n), 0)
    ELSE LET g1 == GCD(Abs(x.n), y.d)
             g2 == GCD(Abs(y.n), x.d)
         IN  Rat((x.n \div g1) * (y.n \div g2), (x.d \div g2) * (y.d \div g1))
\* x / 0 is inf, -inf or nan (numpy warns and goes on); x / inf is 0
RDiv(x, y) ==
    IF y.d = 0 THEN (IF x.d = 0 \/ y.n = 0 THEN NaN ELSE Zero)
    ELSE IF x.d = 0 THEN (IF y.n < 0 THEN RNeg(x) ELSE x)
    ELSE Rat(x.n * y.d, x.d * y.n)
RAbs(x) == [n |-> Abs(x.n), d |-> x.d]
RLt(x, y) == x.n * y.d < y.n * x.d
RLe(x, y) == x.n * y.d <= y.n * x.d

\* Python's min(a, b) and max(a, b): the first argument unless the second beats it
PyMin(a, b) == IF RLt(b, a) THEN b ELSE a
PyMax(a, b) == IF RLt(a, b) THEN b ELSE a

RECURSIVE RSum(_)
RSum(s) == IF s = <<>> THEN Zero ELSE RAdd(Head(s), RSum(Tail(s)))

\* round(x, k) with m = 10^k: the nearest multiple of 1/m, a tie going to the even one
PyRound(x, m) ==
    IF x.d = 0 THEN x ELSE
    LET g  == GCD(m, x.d)
        mm == m \div g
        dd == x.d \div g
        whole == x.n \div x.d
        q  == (x.n - whole * x.d) * mm
        fl == q \div dd
        r  == q - fl * dd
        up == IF 2 * r > dd THEN 1
              ELSE IF 2 * r < dd THEN 0
              ELSE IF (whole * m + fl) % 2 = 0 THEN 0 ELSE 1
    IN  Rat(whole * m + fl + up, m)

RECURSIVE SqrtSearch(_, _, _)
SqrtSearch(n, lo, hi) ==
    IF lo >= hi THEN lo
    ELSE LET mid == (lo + hi + 1) \div 2
         IN  IF mid * mid <= n THEN SqrtSearch(n, mid, hi)
             ELSE SqrtSearch(n, lo, mid - 1)

\* the largest r with r * r <= n
ISqrt(n) == SqrtSearch(n, 0, IF n < 46340 THEN n ELSE 46340)

\* np.sqrt of a non-negative real, taken down to a multiple of 1/SqrtScale
RSqrt(x) ==
    IF x.d = 0 THEN (IF x.n = 1 THEN Inf ELSE NaN)
    ELSE IF x.n < 0 THEN NaN
    ELSE Rat(ISqrt((x.n * SqrtScale * SqrtScale) \div x.d), SqrtScale)

\* what a call gives back: a value, or the exception it raised
Returned(v) == [raised |-> "none", value |-> v]
Raised(e) == [raised |-> e, value |-> Zero]

---------------------------------------------------------------------------
(* calculate_risk_score *)

DefaultWeights == <<Rat(5, 10), Rat(3, 10), Rat(2, 10)>>

\* norm_volatility = min(volatility, 1.0)
NormVolatility(volatility) == PyMin(volatility, One)

\* the weighted sum with the concentration term subtracted
RawScoreSignSlip(norm_volatility, concentration, correlation, weights) ==
    RSub(RAdd(RMul(weights[1], norm_volatility),
              RMul(weights[3], correlation)),
         RMul(weights[2], concentration))

\* raw_score = w_vol * norm_volatility + w_conc * concentration + w_corr * correlation
RawScore(norm_volatility, concentration, correlation, weights) ==
    RAdd(RAdd(RMul(weights[1], norm_volatility),
              RMul(weights[2], concentration)),
         RMul(weights[3], correlation))

\* the scaling without its offset of 1
ScaleScoreNoOffset(raw_score) == RMul(raw_score, RInt(9))

\* scaled_score = 1 + (raw_score * 9)
ScaleScore(raw_score) == RAdd(One, RMul(raw_score, RInt(9)))

\* max(1.0, min(10.0, scaled_score))
ClampScore(scaled_score) == PyMax(One, PyMin(RInt(10), scaled_score))

\* the score with neither the cap on volatility nor the final clamp
calculate_risk_score_unclamped(volatility, concentration, correlation, weights) ==
    PyRound(ScaleScore(RawScore(volatility, concentration, correlation, weights)), 100)

calculate_risk_score(volatility, concentration, correlation, weights) ==
    PyRound(ClampScore(ScaleScore(
        RawScore(NormVolatility(volatility), concentration, correlation, weights))), 100)

---------------------------------------------------------------------------
(* calculate_returns, calculate_volatility, calculate_hhi *)

\* the differences divided by prices_arr[1:], the later price of each pair
calculate_returns_over_next(prices) ==
    IF Len(prices) < 2 THEN <<>>
    ELSE [i \in 1..(Len(prices) - 1) |->
             RDiv(RSub(prices[i + 1], prices[i]), prices[i + 1])]

\* returns = np.diff(prices_arr) / prices_arr[:-1]
calculate_returns(prices) ==
    IF Len(prices) < 2 THEN <<>>
    ELSE [i \in 1..(Len(prices) - 1) |->
             RDiv(RSub(prices[i + 1], prices[i]), prices[i])]

\* np.mean of a non-empty sequence
np_mean(xs) == RDiv(RSum(xs), RInt(Len(xs)))

\* np.std: square root of the mean squared deviation from the mean (ddof = 0)
np_std(xs) ==
    LET mean == np_mean(xs)
        dev2 == [i \in 1..Len(xs) |-> RMul(RSub(xs[i], mean), RSub(xs[i], mean))]
    IN  RSqrt(np_mean(dev2))

\* the volatility without the guard on the number of returns
calculate_volatility_unguarded(prices) ==
    RMul(np_std(calculate_returns(prices)), RSqrt(RInt(252)))

calculate_volatility(prices) ==
    LET returns == calculate_returns(prices)
    IN  IF Len(returns) < 2 THEN Zero
        ELSE RMul(np_std(returns), RSqrt(RInt(252)))

\* the sum of the squared weights as given, not normalised
calculate_hhi_unnormalised(weights) ==
    IF weights = <<>> THEN Zero
    ELSE IF RLt(Zero, RSum(weights))
         THEN RSum([i \in 1..Len(weights) |-> RMul(weights[i], weights[i])])
         ELSE Zero

\* the guard written "total != 0": a negative total is normalised too
calculate_hhi_nonzero_total(weights) ==
    IF weights = <<>> THEN Zero
    ELSE LET total == RSum(weights)
         IN  IF total # Zero
             THEN RSum([i \in 1..Len(weights) |->
                          RMul(RDiv(weights[i], total), RDiv(weights[i], total))])
             ELSE Zero

calculate_hhi(weights) ==
    IF weights = <<>> THEN Zero
    ELSE LET total == RSum(weights)
         IN  IF RLt(Zero, total)
             THEN RSum([i \in 1..Len(weights) |->
                          RMul(RDiv(weights[i], total), RDiv(weights[i], total))])
             ELSE Zero

---------------------------------------------------------------------------
(* calculate_correlation *)

RECURSIVE MinLen(_)
MinLen(rows) ==
    IF Len(rows) = 1 THEN Len(rows[1])
    ELSE LET m == MinLen(Tail(rows))
         IN  IF Len(rows[1]) < m THEN Len(rows[1]) ELSE m

\* one entry of np.corrcoef: covariance over the product of the standard deviations,
\* nan when a series has no variance (0 / 0) or holds a non-finite value
corrcoef(x, y) ==
    LET mx  == np_mean(x)
        my  == np_mean(y)
        sxy == RSum([i \in 1..Len(x) |-> RMul(RSub(x[i], mx), RSub(y[i], my))])
        sxx == RSum([i \in 1..Len(x) |-> RMul(RSub(x[i], mx), RSub(x[i], mx))])
        syy == RSum([i \in 1..Len(y) |-> RMul(RSub(y[i], my), RSub(y[i], my))])
        den == RMul(sxx, syy)
    IN  IF ~IsFinite(sxy) \/ ~IsFinite(den) \/ den.n = 0 THEN NaN
        ELSE LET mag == RSqrt(RDiv(RMul(sxy, sxy), den))
             IN  IF sxy.n < 0 THEN RNeg(mag) ELSE mag

\* np.nan_to_num(x, nan=0.0)
nan_to_num(x) == IF x.d = 0 /\ x.n = 0 THEN Zero ELSE x

\* the pairs (i, j), i < j, in the order of the two loops
RECURSIVE UpperPairs(_, _, _)
UpperPairs(i, j, n) ==
    IF i > n THEN <<>>
    ELSE IF j > n THEN UpperPairs(i + 1, i + 2, n)
    ELSE <<(<<i, j>>)>> \o UpperPairs(i, j + 1, n)

calculate_correlation(returns_matrix) ==
    IF Len(returns_matrix) < 2 THEN Returned(Zero)
    ELSE LET nonempty == SelectSeq(returns_matrix, LAMBDA r : r # <<>>)
         IN  \* min() of an empty generator
             IF nonempty = <<>> THEN Raised("ValueError")
             ELSE LET min_len == MinLen(nonempty)
                      trimmed == [k \in 1..Len(nonempty) |->
                                     SubSeq(nonempty[k], 1, min_len)]
                      pairs   == UpperPairs(1, 2, Len(trimmed))
                      upper_triangle ==
                          [k \in 1..Len(pairs) |->
                              RAbs(nan_to_num(corrcoef(trimmed[pairs[k][1]],
                                                       trimmed[pairs[k][2]])))]
                  IN  IF min_len < 2 THEN Returned(Zero)
                      ELSE IF Len(trimmed) < 2 THEN Returned(Zero)
                      ELSE IF upper_triangle = <<>> THEN Returned(Zero)
                      ELSE Returned(np_mean(upper_triangle))

---------------------------------------------------------------------------
(* analyze_portfolio_risk *)

\* dict.get(key, default)
Get(h, key, default) == IF key \in DOMAIN h THEN h[key] ELSE default

\* {**holding, "value": value}: a new dict, the caller's is left as it was
WithKey(h, key, v) ==
    [k \in DOMAIN h \cup {key} |-> IF k = key THEN v ELSE h[k]]

\* the guard written "is None": no list passes it, the empty one included
IsEmptyPortfolioNoneOnly(enriched_holdings) == FALSE /\ enriched_holdings = <<>>

\* if not enriched_holdings
IsEmptyPortfolio(enriched_holdings) == enriched_holdings = <<>>

EmptyPortfolioResult ==
    [risk_score |-> Zero, volatility |-> Zero, concentration |-> Zero,
     correlation_risk |-> Zero, error |-> "Empty portfolio"]

\* value = current_price * quantity
HoldingValue(holding) ==
    RMul(Get(holding, "current_price", Zero), Get(holding, "quantity", Zero))

\* the weight taken with // in place of /
HoldingWeightFloorDiv(value, total_value) ==
    IF RLt(Zero, total_value)
    THEN RInt((value.n * total_value.d) \div (value.d * total_value.n))
    ELSE Zero

\* weight = value / total_value if total_value > 0 else 0
HoldingWeight(value, total_value) ==
    IF RLt(Zero, total_value) THEN RDiv(value, total_value) ELSE Zero

\* the dict the first loop appends to holdings_with_value is the caller's own,
\* as "holding['value'] = value" followed by "append(holding)" would make it
ValueDictAliased(i, n) == i

\* the dicts are numbered: 1..n are the caller's (enriched_holdings[i] refers to
\* dict i), and {**holding, "value": value} makes a new dict, n + i, for
\* holdings_with_value[i]
ValueDict(i, n) == n + i

\* the contents of the dicts after the two loops that set "value" and "weight"
DictsAfterWeights(enriched_holdings, values, weights) ==
    LET n == Len(enriched_holdings)
    IN  [a \in 1..(2 * n) |->
            IF \E i \in 1..n : ValueDict(i, n) = a
            THEN LET i == CHOOSE i \in 1..n : ValueDict(i, n) = a
                 IN  WithKey(WithKey(enriched_holdings[i], "value", values[i]),
                             "weight", weights[i])
            ELSE IF a <= n THEN enriched_holdings[a]
            ELSE <<>>]

\* the loop body run for every holding: neither "if historical_prices" nor
\* "if returns" is tested
LoopLocalsUnguarded(enriched_holdings) ==
    LET n == Len(enriched_holdings)
        values == [i \in 1..n |-> HoldingValue(enriched_holdings[i])]
        total_value == RSum(values)
        weights == [i \in 1..n |-> HoldingWeight(values[i], total_value)]
        dicts == DictsAfterWeights(enriched_holdings, values, weights)
        holdings_with_value == [i \in 1..n |-> dicts[ValueDict(i, n)]]
        individual_volatilities ==
            [i \in 1..n |->
                RMul(calculate_volatility(
                         Get(holdings_with_value[i], "historical_prices", <<>>)),
                     weights[i])]
        all_returns ==
            [i \in 1..n |->
                calculate_returns(
                    Get(holdings_with_value[i], "historical_prices", <<>>))]
    IN  [enriched_holdings |-> [i \in 1..n |-> dicts[i]],
         total_value |-> total_value,
         holdings_with_value |-> holdings_with_value,
         weights |-> weights,
         individual_volatilities |-> individual_volatilities,
         all_returns |-> all_returns,
         portfolio_volatility |->
             IF individual_volatilities # <<>> THEN RSum(individual_volatilities)
             ELSE Zero]

\* the locals of analyze_portfolio_risk from its empty-portfolio guard to the
\* portfolio volatility: values, weights and the loop over the holdings;
\* enriched_holdings is the caller's list as the dicts it refers to stand then
LoopLocals(enriched_holdings) ==
    LET n == Len(enriched_holdings)
        values == [i \in 1..n |-> HoldingValue(enriched_holdings[i])]
        total_value == RSum(values)
        weights == [i \in 1..n |-> HoldingWeight(values[i], total_value)]
        dicts == DictsAfterWeights(enriched_holdings, values, weights)
        holdings_with_value == [i \in 1..n |-> dicts[ValueDict(i, n)]]
        with_history ==
            SelectSeq(holdings_with_value,
                      LAMBDA h : Get(h, "historical_prices", <<>>) # <<>>)
        individual_volatilities ==
            [i \in 1..Len(with_history) |->
                RMul(calculate_volatility(with_history[i].historical_prices),
                     with_history[i].weight)]
        all_returns ==
            SelectSeq([i \in 1..Len(with_history) |->
                          calculate_returns(with_history[i].historical_prices)],
                      LAMBDA r : r # <<>>)
    IN  [enriched_holdings |-> [i \in 1..n |-> dicts[i]],
         total_value |-> total_value,
         holdings_with_value |-> holdings_with_value,
         weights |-> weights,
         individual_volatilities |-> individual_volatilities,
         all_returns |-> all_returns,
         portfolio_volatility |->
             IF individual_volatilities # <<>> THEN RSum(individual_volatilities)
             ELSE Zero]

\* the locals of analyze_portfolio_risk past its empty-portfolio guard
AnalysisLocals(enriched_holdings) ==
    LET loop == LoopLocals(enriched_holdings)
    IN  [enriched_holdings |-> loop.enriched_holdings,
         total_value |-> loop.total_value,
         holdings_with_value |-> loop.holdings_with_value,
         weights |-> loop.weights,
         individual_volatilities |-> loop.individual_volatilities,
         all_returns |-> loop.all_returns,
         portfolio_volatility |-> loop.portfolio_volatility,
         concentration |-> calculate_hhi(loop.weights),
         correlation_risk |-> calculate_correlation(loop.all_returns)]

\* the dict analyze_portfolio_risk returns from its locals
AnalysisResult(loc) ==
    [risk_score |->
         calculate_risk_score(loc.portfolio_volatility, loc.concentration,
                              loc.correlation_risk.value, DefaultWeights),
     risk_breakdown |->
         [volatility |-> PyRound(loc.portfolio_volatility, 10000),
          concentration |-> PyRound(loc.concentration, 10000),
          correlation_risk |-> PyRound(loc.correlation_risk.value, 10000)],
     total_value |-> PyRound(loc.total_value, 100),
     holdings_analysis |->
         [i \in 1..Len(loc.holdings_with_value) |->
             LET h == loc.holdings_with_value[i]
             IN  [symbol |-> Get(h, "symbol", "None"),
                  value |-> PyRound(Get(h, "value", Zero), 100),
                  weight |-> PyRound(RMul(Get(h, "weight", Zero), RInt(100)), 100),
                  individual_volatility |->
                      PyRound(calculate_volatility(Get(h, "historical_prices", <<>>)),
                              10000)]]]

\* the locals at the return: none were bound when the guard returned early
AnalysisFrame(enriched_holdings) ==
    IF IsEmptyPortfolio(enriched_holdings) THEN [total_value |-> Zero]
    ELSE AnalysisLocals(enriched_holdings)

\* what analyze_portfolio_risk gives back, its locals at the return being loc
AnalysisOutcome(enriched_holdings, loc) ==
    IF IsEmptyPortfolio(enriched_holdings) THEN Returned(EmptyPortfolioResult)
    ELSE IF loc.correlation_risk.raised # "none" THEN loc.correlation_risk
    ELSE Returned(AnalysisResult(loc))

analyze_portfolio_risk(enriched_holdings) ==
    AnalysisOutcome(enriched_holdings, AnalysisFrame(enriched_holdings))

---------------------------------------------------------------------------
(* simulate_scenario: the what-if arithmetic of the scenario agent *)

\* the spellings of stock_symbol the calls are made with
ScenarioSymbols == {"SPY", "spy", "Qqq", "TSLA", "nvda", "Coin", "AAPL", "aapl"}

\* stock_symbol.upper()
Upper(stock_symbol) ==
    CASE stock_symbol = "spy" -> "SPY"
      [] stock_symbol = "Qqq" -> "QQQ"
      [] stock_symbol = "nvda" -> "NVDA"
      [] stock_symbol = "Coin" -> "COIN"
      [] stock_symbol = "aapl" -> "AAPL"
      [] OTHER -> stock_symbol

IndexFunds == {"SPY", "VTI", "QQQ"}
HighVolatilityStocks == {"TSLA", "NVDA", "COIN"}

\* the index funds not told apart: every symbol that is not high-volatility is +0.2
AddStockRiskChangeNoIndexFunds(stock_symbol) ==
    IF Upper(stock_symbol) \in HighVolatilityStocks THEN Rat(6, 10)
    ELSE Rat(2, 10)

\* the risk change of add_stock by the class of the symbol
AddStockRiskChange(stock_symbol) ==
    IF Upper(stock_symbol) \in IndexFunds THEN Rat(-8, 10)
    ELSE IF Upper(stock_symbol) \in HighVolatilityStocks THEN Rat(6, 10)
    ELSE Rat(2, 10)

\* the new risk score with neither min nor max applied
NewRiskUnclamped(current_risk_score, risk_change) ==
    PyRound(RAdd(current_risk_score, risk_change), 100)

\* round(min(10, max(1, current_risk_score + risk_change)), 2)
NewRisk(current_risk_score, risk_change) ==
    PyRound(PyMin(RInt(10), PyMax(RInt(1), RAdd(current_risk_score, risk_change))),
            100)

\* "POSITIVE" if risk_change < 0 else "NEGATIVE" if risk_change > 0.3 else "NEUTRAL"
AddStockImpact(risk_change) ==
    IF RLt(risk_change, Zero) THEN "POSITIVE"
    ELSE IF RLt(Rat(3, 10), risk_change) THEN "NEGATIVE"
    ELSE "NEUTRAL"

\* the dict with the risk change taken from the class of the symbol in every branch
ScenarioResultBySymbolClass(verb, scenario_type, current_portfolio_value, current_risk_score, stock_symbol, change_amount, new_value, risk_change, impact, analysis) ==
    [scenario |-> [verb |-> verb, symbol |-> stock_symbol,
                   amount |-> PyRound(change_amount, 1)],
     scenario_type |-> scenario_type,
     current_value |-> current_portfolio_value,
     new_value |-> new_value,
     current_risk_score |-> current_risk_score,
     new_risk_score |-> NewRisk(current_risk_score, AddStockRiskChange(stock_symbol)),
     risk_change |-> PyRound(AddStockRiskChange(stock_symbol), 100),
     impact |-> impact,
     analysis |-> analysis]

\* the dict a branch of simulate_scenario returns; the two f-strings are kept as
\* the values they format: the amount to 0 decimals in "scenario", the value or
\* amount and the points in "analysis"
ScenarioResult(verb, scenario_type, current_portfolio_value, current_risk_score, stock_symbol, change_amount, new_value, risk_change, impact, analysis) ==
    [scenario |-> [verb |-> verb, symbol |-> stock_symbol,
                   amount |-> PyRound(change_amount, 1)],
     scenario_type |-> scenario_type,
     current_value |-> current_portfolio_value,
     new_value |-> new_value,
     current_risk_score |-> current_risk_score,
     new_risk_score |-> NewRisk(current_risk_score, risk_change),
     risk_change |-> PyRound(risk_change, 100),
     impact |-> impact,
     analysis |-> analysis]

\* the last branch taken for "decrease_position" only, any other type refused
simulate_scenario_known_types_only(scenario_type, current_portfolio_value, current_risk_score, stock_symbol, change_amount) ==
    IF scenario_type = "add_stock"
    THEN LET new_value == RAdd(current_portfolio_value, change_amount)
             risk_change == AddStockRiskChange(stock_symbol)
         IN  \* weight_change = change_amount / new_value
             IF new_value = Zero THEN Raised("ZeroDivisionError")
             ELSE Returned(ScenarioResult(
                      "Add", scenario_type, current_portfolio_value,
                      current_risk_score, stock_symbol, change_amount, new_value,
                      risk_change, AddStockImpact(risk_change),
                      [symbol |-> stock_symbol, value |-> PyRound(new_value, 100),
                       direction |-> IF RLt(risk_change, Zero) THEN "reduce"
                                     ELSE "increase",
                       points |-> PyRound(RAbs(risk_change), 10)]))
    ELSE IF scenario_type = "remove_stock"
    THEN LET new_value == RSub(current_portfolio_value, change_amount)
             risk_change == IF RLt(Zero, current_portfolio_value) THEN Rat(3, 10)
                            ELSE Zero
         IN  Returned(ScenarioResult(
                 "Sell", scenario_type, current_portfolio_value, current_risk_score,
                 stock_symbol, change_amount, PyMax(Zero, new_value), risk_change,
                 "CAUTIONARY",
                 [symbol |-> stock_symbol, value |-> PyRound(new_value, 100)]))
    ELSE IF scenario_type = "increase_position"
    THEN LET new_value == RAdd(current_portfolio_value, change_amount)
             risk_change == Rat(4, 10)
         IN  Returned(ScenarioResult(
                 "Increase", scenario_type, current_portfolio_value,
                 current_risk_score, stock_symbol, change_amount, new_value,
                 risk_change, "CAUTIONARY",
                 [symbol |-> stock_symbol, amount |-> PyRound(change_amount, 1)]))
    ELSE IF scenario_type # "decrease_position" THEN Raised("ValueError")
    ELSE LET new_value == RSub(current_portfolio_value, change_amount)
             risk_change == Rat(-2, 10)
         IN  Returned(ScenarioResult(
                 "Decrease", scenario_type, current_portfolio_value,
                 current_risk_score, stock_symbol, change_amount,
                 PyMax(Zero, new_value), risk_change, "POSITIVE",
                 [symbol |-> stock_symbol]))

simulate_scenario(scenario_type, current_portfolio_value, current_risk_score, stock_symbol, change_amount) ==
    IF scenario_type = "add_stock"
    THEN LET new_value == RAdd(current_portfolio_value, change_amount)
             risk_change == AddStockRiskChange(stock_symbol)
         IN  \* weight_change = change_amount / new_value
             IF new_value = Zero THEN Raised("ZeroDivisionError")
             ELSE Returned(ScenarioResult(
                      "Add", scenario_type, current_portfolio_value,
                      current_risk_score, stock_symbol, change_amount, new_value,
                      risk_change, AddStockImpact(risk_change),
                      [symbol |-> stock_symbol, value |-> PyRound(new_value, 100),
                       direction |-> IF RLt(risk_change, Zero) THEN "reduce"
                                     ELSE "increase",
                       points |-> PyRound(RAbs(risk_change), 10)]))
    ELSE IF scenario_type = "remove_stock"
    THEN LET new_value == RSub(current_portfolio_value, change_amount)
             risk_change == IF RLt(Zero, current_portfolio_value) THEN Rat(3, 10)
                            ELSE Zero
         IN  Returned(ScenarioResult(
                 "Sell", scenario_type, current_portfolio_value, current_risk_score,
                 stock_symbol, change_amount, PyMax(Zero, new_value), risk_change,
                 "CAUTIONARY",
                 [symbol |-> stock_symbol, value |-> PyRound(new_value, 100)]))
    ELSE IF scenario_type = "increase_position"
    THEN LET new_value == RAdd(current_portfolio_value, change_amount)
             risk_change == Rat(4, 10)
         IN  Returned(ScenarioResult(
                 "Increase", scenario_type, current_portfolio_value,
                 current_risk_score, stock_symbol, change_amount, new_value,
                 risk_change, "CAUTIONARY",
                 [symbol |-> stock_symbol, amount |-> PyRound(change_amount, 1)]))
    ELSE LET new_value == RSub(current_portfolio_value, change_amount)
             risk_change == Rat(-2, 10)
         IN  Returned(ScenarioResult(
                 "Decrease", scenario_type, current_portfolio_value,
                 current_risk_score, stock_symbol, change_amount,
                 PyMax(Zero, new_value), risk_change, "POSITIVE",
                 [symbol |-> stock_symbol]))

\* the position in scenarios of the min(scenarios, key=new_risk_score, default 10)
\* among the positions from i on: min keeps the first of the smallest
RECURSIVE MinRiskIndex(_, _)
MinRiskIndex(scenarios, i) ==
    IF i >= Len(scenarios) THEN i
    ELSE LET rest == MinRiskIndex(scenarios, i + 1)
         IN  IF RLt(Get(scenarios[rest], "new_risk_score", RInt(10)),
                    Get(scenarios[i], "new_risk_score", RInt(10)))
             THEN rest ELSE i

\* the last of the smallest kept in place of the first
RECURSIVE LastMinRiskIndex(_, _)
LastMinRiskIndex(scenarios, i) ==
    IF i >= Len(scenarios) THEN i
    ELSE LET rest == LastMinRiskIndex(scenarios, i + 1)
         IN  IF RLe(Get(scenarios[rest], "new_risk_score", RInt(10)),
                    Get(scenarios[i], "new_risk_score", RInt(10)))
             THEN rest ELSE i

\* the recommendation that names the last of the scenarios of lowest score
get_scenario_recommendation_last_of_ties(scenarios) ==
    LET best_scenario == scenarios[LastMinRiskIndex(scenarios, 1)]
    IN  [scenario |-> best_scenario.scenario,
         risk_score |-> best_scenario.new_risk_score]

\* the f-string is kept as the two values it formats
get_scenario_recommendation(scenarios) ==
    LET best_scenario == scenarios[MinRiskIndex(scenarios, 1)]
    IN  [scenario |-> best_scenario.scenario,
         risk_score |-> best_scenario.new_risk_score]

run_multiple_scenarios(portfolio_value, risk_score, largest_holding, largest_holding_value) ==
    LET first == simulate_scenario("add_stock", portfolio_value, risk_score, "SPY",
                                   RInt(10000))
        second == simulate_scenario("increase_position", portfolio_value, risk_score,
                                    largest_holding, RInt(5000))
        third == simulate_scenario("decrease_position", portfolio_value, risk_score,
                                   largest_holding,
                                   RMul(largest_holding_value, Rat(3, 10)))
    IN  IF first.raised # "none" THEN first
        ELSE IF second.raised # "none" THEN second
        ELSE IF third.raised # "none" THEN third
        ELSE LET scenarios == <<first.value, second.value, third.value>>
             IN  Returned([scenarios |-> scenarios,
                           recommendation |-> get_scenario_recommendation(scenarios)])

---------------------------------------------------------------------------
(* The stock analyzer: generate_stock_recommendation *)

\* 1 for a condition that holds, as "signals += 1" under an if
Fired(cond) == IF cond THEN 1 ELSE 0

\* risk_score >= 7, gain_loss_percent < -15, portfolio_weight > 35, volatility > 45
SellSignals(risk_score, gain_loss_percent, portfolio_weight, volatility) ==
    Fired(RLe(RInt(7), risk_score)) + Fired(RLt(gain_loss_percent, RInt(-15)))
        + Fired(RLt(RInt(35), portfolio_weight)) + Fired(RLt(RInt(45), volatility))

\* gain_loss_percent > 20, risk_score <= 3, volatility < 20 and portfolio_weight < 25
HoldSignals(risk_score, gain_loss_percent, portfolio_weight, volatility) ==
    Fired(RLt(RInt(20), gain_loss_percent)) + Fired(RLe(risk_score, RInt(3)))
        + Fired(RLt(volatility, RInt(20)) /\ RLt(portfolio_weight, RInt(25)))

\* the reasons in the order the tests append them, each f-string kept as the value
\* it formats to one decimal
Reasons(risk_score, gain_loss_percent, portfolio_weight, volatility) ==
    (IF RLe(RInt(7), risk_score)
     THEN <<[reason |-> "High risk score", value |-> risk_score]>> ELSE <<>>)
    \o (IF RLt(gain_loss_percent, RInt(-15))
        THEN <<[reason |-> "Significant loss",
                value |-> PyRound(gain_loss_percent, 10)]>> ELSE <<>>)
    \o (IF RLt(RInt(35), portfolio_weight)
        THEN <<[reason |-> "Over-concentrated",
                value |-> PyRound(portfolio_weight, 10)]>> ELSE <<>>)
    \o (IF RLt(RInt(45), volatility)
        THEN <<[reason |-> "High volatility",
                value |-> PyRound(volatility, 10)]>> ELSE <<>>)
    \o (IF RLt(RInt(20), gain_loss_percent)
        THEN <<[reason |-> "Strong gains",
                value |-> PyRound(gain_loss_percent, 10)]>> ELSE <<>>)
    \o (IF RLe(risk_score, RInt(3))
        THEN <<[reason |-> "Low risk profile", value |-> Zero]>> ELSE <<>>)
    \o (IF RLt(volatility, RInt(20)) /\ RLt(portfolio_weight, RInt(25))
        THEN <<[reason |-> "Well-balanced stable position", value |-> Zero]>>
        ELSE <<>>)

\* SELL asked of more than two sell signals
DecideSellAboveTwo(sell_signals, hold_signals) ==
    IF sell_signals > 2
    THEN [recommendation |-> "SELL",
          confidence |-> IF sell_signals >= 3 THEN "HIGH" ELSE "MEDIUM"]
    ELSE IF sell_signals = 1 /\ hold_signals = 0
    THEN [recommendation |-> "REDUCE", confidence |-> "MEDIUM"]
    ELSE IF hold_signals >= 2
    THEN [recommendation |-> "HOLD", confidence |-> "HIGH"]
    ELSE [recommendation |-> "HOLD", confidence |-> "LOW"]

\* the if / elif chain that determines the recommendation
Decide(sell_signals, hold_signals) ==
    IF sell_signals >= 2
    THEN [recommendation |-> "SELL",
          confidence |-> IF sell_signals >= 3 THEN "HIGH" ELSE "MEDIUM"]
    ELSE IF sell_signals = 1 /\ hold_signals = 0
    THEN [recommendation |-> "REDUCE", confidence |-> "MEDIUM"]
    ELSE IF hold_signals >= 2
    THEN [recommendation |-> "HOLD", confidence |-> "HIGH"]
    ELSE [recommendation |-> "HOLD", confidence |-> "LOW"]

\* the action text, kept as its wording and the symbol it names
ActionText(recommendation, symbol) ==
    [text |-> IF recommendation = "SELL" THEN "Consider selling"
              ELSE IF recommendation = "REDUCE" THEN "Consider reducing"
              ELSE "Keep holding",
     symbol |-> symbol]

generate_stock_recommendation(symbol, risk_score, gain_loss_percent, portfolio_weight, volatility) ==
    LET decided == Decide(SellSignals(risk_score, gain_loss_percent,
                                      portfolio_weight, volatility),
                          HoldSignals(risk_score, gain_loss_percent,
                                      portfolio_weight, volatility))
        reasons == Reasons(risk_score, gain_loss_percent, portfolio_weight,
                           volatility)
    IN  [symbol |-> Upper(symbol),
         recommendation |-> decided.recommendation,
         confidence |-> decided.confidence,
         action |-> ActionText(decided.recommendation, Upper(symbol)),
         reasons |-> IF reasons # <<>> THEN reasons
                     ELSE <<[reason |-> "Position is balanced", value |-> Zero]>>]

---------------------------------------------------------------------------
(* The stock analyzer: analyze_stock_risk and analyze_all_stocks *)

\* MOCK_VOLATILITY.get(symbol, 0.35)
MockVolatility(symbol) ==
    CASE symbol = "AAPL" -> Rat(28, 100)
      [] symbol = "GOOGL" -> Rat(32, 100)
      [] symbol = "MSFT" -> Rat(25, 100)
      [] symbol = "AMZN" -> Rat(35, 100)
      [] symbol = "TSLA" -> Rat(55, 100)
      [] symbol = "NVDA" -> Rat(52, 100)
      [] symbol = "META" -> Rat(40, 100)
      [] symbol = "SPY" -> Rat(15, 100)
      [] symbol = "QQQ" -> Rat(22, 100)
      [] symbol = "VTI" -> Rat(14, 100)
      [] symbol = "INFY" -> Rat(30, 100)
      [] symbol = "TCS" -> Rat(28, 100)
      [] OTHER -> Rat(35, 100)

\* ((current_price - purchase_price) / purchase_price) * 100
GainLossPercent(purchase_price, current_price) ==
    RMul(RDiv(RSub(current_price, purchase_price), purchase_price), RInt(100))

\* loss_risk = 2 if gain_loss_percent < -10 else (1 if gain_loss_percent < 0 else 0)
LossRisk(gain_loss_percent) ==
    IF RLt(gain_loss_percent, RInt(-10)) THEN RInt(2)
    ELSE IF RLt(gain_loss_percent, Zero) THEN RInt(1)
    ELSE Zero

\* the sum of the three components clamped without being rounded
StockRiskScoreUnrounded(volatility, weight, gain_loss_percent) ==
    PyMin(RInt(10),
          PyMax(RInt(1),
                RAdd(RAdd(PyMin(RMul(volatility, RInt(10)), RInt(5)),
                          PyMin(RDiv(weight, RInt(10)), RInt(3))),
                     LossRisk(gain_loss_percent))))

\* volatility_risk, concentration_risk and loss_risk summed, rounded to one decimal,
\* then min(10, max(1, ...)): the same lines in analyze_stock_risk and in
\* analyze_all_stocks
StockRiskScore(volatility, weight, gain_loss_percent) ==
    PyMin(RInt(10),
          PyMax(RInt(1),
                PyRound(RAdd(RAdd(PyMin(RMul(volatility, RInt(10)), RInt(5)),
                                  PyMin(RDiv(weight, RInt(10)), RInt(3))),
                             LossRisk(gain_loss_percent)), 10)))

\* the if / elif chain on stock_risk_score
RiskLevel(stock_risk_score) ==
    IF RLe(stock_risk_score, RInt(3)) THEN "LOW"
    ELSE IF RLe(stock_risk_score, RInt(5)) THEN "MODERATE"
    ELSE IF RLe(stock_risk_score, RInt(7)) THEN "ELEVATED"
    ELSE "HIGH"

analyze_stock_risk(symbol, quantity, purchase_price, current_price, portfolio_weight) ==
    LET gain_loss == RMul(RSub(current_price, purchase_price), quantity)
        gain_loss_percent ==
            IF RLt(Zero, purchase_price)
            THEN GainLossPercent(purchase_price, current_price) ELSE Zero
        volatility == MockVolatility(Upper(symbol))
        stock_risk_score ==
            StockRiskScore(volatility, portfolio_weight, gain_loss_percent)
    IN  [symbol |-> Upper(symbol),
         current_price |-> current_price,
         purchase_price |-> purchase_price,
         quantity |-> quantity,
         current_value |-> PyRound(RMul(current_price, quantity), 100),
         gain_loss |-> PyRound(gain_loss, 100),
         gain_loss_percent |-> PyRound(gain_loss_percent, 100),
         volatility |-> PyRound(RMul(volatility, RInt(100)), 10),
         portfolio_weight |-> PyRound(portfolio_weight, 10),
         risk_score |-> stock_risk_score,
         risk_level |-> RiskLevel(stock_risk_score)]

\* the entry analyze_all_stocks appends for one holding
StockAnalysis(holding, total_value) ==
    LET symbol == Get(holding, "symbol", "UNKNOWN")
        value == Get(holding, "value", Zero)
        weight ==
            IF "weight" \in DOMAIN holding THEN holding.weight
            ELSE IF RLt(Zero, total_value)
                 THEN RMul(RDiv(value, total_value), RInt(100)) ELSE Zero
        volatility ==
            IF "individual_volatility" \in DOMAIN holding
            THEN holding.individual_volatility
            ELSE MockVolatility(Upper(symbol))
        purchase_price == Get(holding, "purchase_price", Zero)
        current_price == Get(holding, "current_price", Zero)
        gain_loss_percent ==
            IF RLt(Zero, purchase_price) /\ RLt(Zero, current_price)
            THEN GainLossPercent(purchase_price, current_price) ELSE Zero
        stock_risk_score == StockRiskScore(volatility, weight, gain_loss_percent)
        recommendation ==
            generate_stock_recommendation(symbol, stock_risk_score,
                                          gain_loss_percent, weight,
                                          RMul(volatility, RInt(100)))
    IN  [symbol |-> recommendation.symbol,
         current_value |-> PyRound(value, 100),
         portfolio_weight |-> PyRound(weight, 10),
         volatility |-> PyRound(RMul(volatility, RInt(100)), 10),
         gain_loss_percent |-> PyRound(gain_loss_percent, 10),
         risk_score |-> stock_risk_score,
         risk_level |-> RiskLevel(stock_risk_score),
         recommendation |-> recommendation.recommendation,
         confidence |-> recommendation.confidence,
         action |-> recommendation.action,
         reasons |-> recommendation.reasons]

\* x put into a list sorted by risk_score, highest first, after the entries that
\* equal it: the sort is stable, reverse=True included
RECURSIVE InsertByRisk(_, _)
InsertByRisk(sorted, x) ==
    IF sorted = <<>> THEN <<x>>
    ELSE IF RLt(Head(sorted).risk_score, x.risk_score) THEN <<x>> \o sorted
    ELSE <<Head(sorted)>> \o InsertByRisk(Tail(sorted), x)

\* stock_analyses.sort(key=lambda x: x["risk_score"], reverse=True)
RECURSIVE SortByRisk(_)
SortByRisk(stock_analyses) ==
    IF stock_analyses = <<>> THEN <<>>
    ELSE InsertByRisk(SortByRisk(SubSeq(stock_analyses, 1, Len(stock_analyses) - 1)),
                      stock_analyses[Len(stock_analyses)])

\* sum(1 for s in stock_analyses if s[key] in values)
CountWhere(stock_analyses, key, values) ==
    Cardinality({i \in 1..Len(stock_analyses) : stock_analyses[i][key] \in values})

\* analyze_all_stocks given a list: a JSON string is parsed to one first
analyze_all_stocks(holdings) ==
    IF holdings = <<>>
    THEN [stock_count |-> 0, high_risk_count |-> 0, sell_recommendations |-> 0,
          stock_analyses |-> <<>>]
    ELSE LET total_value ==
                 RSum([i \in 1..Len(holdings) |-> Get(holdings[i], "value", Zero)])
             stock_analyses ==
                 SortByRisk([i \in 1..Len(holdings) |->
                                StockAnalysis(holdings[i], total_value)])
         IN  [stock_count |-> Len(stock_analyses),
              high_risk_count |->
                  CountWhere(stock_analyses, "risk_level", {"HIGH", "ELEVATED"}),
              sell_recommendations |->
                  CountWhere(stock_analyses, "recommendation", {"SELL", "REDUCE"}),
              stock_analyses |-> stock_analyses]

---------------------------------------------------------------------------
(* run_agent_analysis: what it computes itself, the answers of the agents aside *)

\* the position of max(holdings_analysis, key=value) among the positions from i
\* on: max keeps the first of the largest
RECURSIVE MaxValueIndex(_, _)
MaxValueIndex(holdings_analysis, i) ==
    IF i >= Len(holdings_analysis) THEN i
    ELSE LET rest == MaxValueIndex(holdings_analysis, i + 1)
         IN  IF RLt(Get(holdings_analysis[i], "value", Zero),
                    Get(holdings_analysis[rest], "value", Zero))
             THEN rest ELSE i

\* largest_holding
LargestHolding(holdings_analysis) ==
    IF holdings_analysis # <<>>
    THEN holdings_analysis[MaxValueIndex(holdings_analysis, 1)]
    ELSE [symbol |-> "N/A", value |-> Zero]

\* stock_analysis_result = analyze_all_stocks(risk_analysis.get("holdings_analysis", []))
StockAnalysisOf(enriched_holdings, risk_analysis) ==
    analyze_all_stocks(Get(risk_analysis, "holdings_analysis", <<>>))

\* the fallback scenarios of a base analysis
FallbackScenarios(risk_analysis) ==
    LET largest_holding ==
            LargestHolding(Get(risk_analysis, "holdings_analysis", <<>>))
    IN  run_multiple_scenarios(Get(risk_analysis, "total_value", Zero),
                               Get(risk_analysis, "risk_score", Zero),
                               Get(largest_holding, "symbol", "N/A"),
                               Get(largest_holding, "value", Zero))

\* what run_agent_analysis gives once analyze_portfolio_risk gave analysed and
\* run_multiple_scenarios gave fallback_scenarios
AgentAnalysisOutcome(enriched_holdings, analysed, fallback_scenarios) ==
    IF analysed.raised # "none" THEN analysed
    ELSE IF fallback_scenarios.raised # "none" THEN fallback_scenarios
    ELSE Returned([base_analysis |-> analysed.value,
                   scenarios |-> fallback_scenarios.value,
                   stock_analysis |->
                       StockAnalysisOf(enriched_holdings, analysed.value)])

\* the base analysis, the fallback scenarios and the stock analysis of the result
run_agent_analysis(enriched_holdings) ==
    LET analysed == analyze_portfolio_risk(enriched_holdings)
    IN  AgentAnalysisOutcome(enriched_holdings, analysed,
                             IF analysed.raised # "none" THEN analysed
                             ELSE FallbackScenarios(analysed.value))

---------------------------------------------------------------------------
(* The validator: Holding, Portfolio and validate_portfolio.  A symbol is the
   sequence of its characters. *)

\* Field(..., min_length=1, max_length=20)
SymbolMinLength == 1
SymbolMaxLength == 20

\* one character of v.upper()
CharUpper(c) == IF c = "a" THEN "A" ELSE c

\* v.strip(): the white space at both ends dropped
RECURSIVE LStrip(_)
LStrip(v) == IF v # <<>> /\ Head(v) = " " THEN LStrip(Tail(v)) ELSE v

RECURSIVE RStrip(_)
RStrip(v) ==
    IF v # <<>> /\ v[Len(v)] = " " THEN RStrip(SubSeq(v, 1, Len(v) - 1)) ELSE v

\* the validator uppercase_symbol: v.upper().strip()
uppercase_symbol(v) == RStrip(LStrip([i \in 1..Len(v) |-> CharUpper(v[i])]))

\* datetime.strptime(v, "%Y-%m-%d") on the dates the calls are made with
ParsesAsDate(v) == v = "2024-01-15"

\* the validator validate_date: an absent or empty date passes
DateAccepted(holding) ==
    LET v == Get(holding, "purchase_date", "None")
    IN  v \in {"None", ""} \/ ParsesAsDate(v)

\* the validator validate_profile: v.lower().strip(), then the default for a
\* profile that is none of the three
validate_profile(v) ==
    LET lowered == CASE v = "Senior " -> "senior" [] OTHER -> v
    IN  IF lowered \in {"beginner", "senior", "intermediate"} THEN lowered
        ELSE "beginner"

\* the field constraints of Holding, tested on the values as given, and its
\* validators, which run after them
HoldingAccepted(holding) ==
    /\ {"symbol", "quantity", "purchase_price"} \subseteq DOMAIN holding
    /\ Len(holding.symbol) >= SymbolMinLength
    /\ Len(holding.symbol) <= SymbolMaxLength
    /\ RLt(Zero, holding.quantity)
    /\ RLe(Zero, holding.purchase_price)
    /\ DateAccepted(holding)

\* the Holding built from an accepted dict
Holding(holding) ==
    [symbol |-> uppercase_symbol(holding.symbol),
     quantity |-> holding.quantity,
     purchase_price |-> holding.purchase_price,
     purchase_date |-> Get(holding, "purchase_date", "None")]

validate_portfolio(portfolio_data) ==
    IF /\ "holdings" \in DOMAIN portfolio_data
       /\ Len(portfolio_data.holdings) >= 1
       /\ \A i \in 1..Len(portfolio_data.holdings) :
             HoldingAccepted(portfolio_data.holdings[i])
    THEN [is_valid |-> TRUE,
          portfolio |->
              [holdings |-> [i \in 1..Len(portfolio_data.holdings) |->
                                Holding(portfolio_data.holdings[i])],
               user_profile |->
                   validate_profile(Get(portfolio_data, "user_profile",
                                        "beginner"))],
          error |-> "None"]
    ELSE [is_valid |-> FALSE, portfolio |-> "None",
          error |-> "Invalid holdings format"]

---------------------------------------------------------------------------
(* Requests served at the same time: each runs one core function in a thread of
   its own, and a thread may be suspended between any two statements.  A call
   is cut where its locals are complete and its result is not yet handed back. *)

Requests == {"first", "second"}
CoreFunctions == {"analyze_portfolio_risk", "simulate_scenario", "analyze_all_stocks"}

\* the locals of a call live in the frame of that call, one per request
LocalsShared(r) == "first"

LocalsOf(r) == r

\* the body of a core function up to its return statement: the locals it binds
CoreLocals(function, arguments) ==
    CASE function = "analyze_portfolio_risk" -> AnalysisFrame(arguments)
      [] function = "simulate_scenario" ->
            [result |-> simulate_scenario(arguments.scenario_type,
                                          arguments.current_portfolio_value,
                                          arguments.current_risk_score,
                                          arguments.stock_symbol,
                                          arguments.change_amount)]
      [] function = "analyze_all_stocks" ->
            [result |-> Returned(analyze_all_stocks(arguments))]

\* the return statement of a core function, its locals being loc
CoreReturn(function, arguments, loc) ==
    CASE function = "analyze_portfolio_risk" -> AnalysisOutcome(arguments, loc)
      [] function = "simulate_scenario" -> loc.result
      [] function = "analyze_all_stocks" -> loc.result

---------------------------------------------------------------------------
(* The caller *)

NoFrame == [total_value |-> Zero]

\* all sequences over S of length at most n
SeqsUpTo(S, n) == UNION {[1..k -> S] : k \in 0..n}

Grid(lo, hi) == {Rat(k, GridDen) : k \in (lo * GridDen)..(hi * GridDen)}

WeightInputs ==
    {<<Rat(a, WeightDen), Rat(b, WeightDen), Rat(c, WeightDen)>> :
        a \in -1..(WeightDen + 1), b \in -1..(WeightDen + 1), c \in -1..(WeightDen + 1)}
    \cup {DefaultWeights}

\* price series given to calculate_returns: a price may be 0
PriceSeriesInputs == SeqsUpTo({RInt(p) : p \in 0..MaxPrice}, MaxPrices)

\* weight sequences given to calculate_hhi: not normalised, a weight may be 0 or negative
WeightSeqInputs == SeqsUpTo(Grid(-1, 2), MaxWeights)

\* return series given to calculate_correlation
ReturnLevels == {RInt(0), RInt(1)}
ReturnSeriesInputs == SeqsUpTo(ReturnLevels, MaxReturns)
ReturnsMatrixInputs == SeqsUpTo(ReturnSeriesInputs, MaxSeries)

\* enriched holdings given to analyze_portfolio_risk.  A holding is the reference
\* position (1 share at price 1) with any of the histories (none, empty, too short for
\* two returns, flat, moving), or another position (worth nothing, worth twice as much)
\* with the reference history or none
\* the arguments simulate_scenario is called with: the four scenario types and one
\* that is none of them, values and amounts that sum or cancel to 0, risk scores
\* from 0 to 11 and one with three decimals
ScenarioTypes ==
    {"add_stock", "remove_stock", "increase_position", "decrease_position",
     "rebalance", "add"}
ScenarioValues == {RInt(0), RInt(5000), RInt(100000)}
ScenarioAmounts == {RInt(-5000), RInt(0), RInt(5000), RInt(10000)}
ScenarioRiskScores == Grid(0, 11) \cup {Rat(41, 8)}

\* the arguments of run_multiple_scenarios: the total value and risk score of an
\* analysis, the symbol of its largest holding ("N/A" when it has none) and that
\* holding's value
LargestHoldingSymbols == ScenarioSymbols \cup {"N/A"}
LargestHoldingValues == {RInt(0), RInt(5000), RInt(100000)}

\* the arguments of generate_stock_recommendation: values on both sides of each
\* threshold of the rule table and on the thresholds themselves
RecommendationSymbols == {"TSLA", "aapl"}
RecommendationRiskScores == {RInt(1), RInt(3), RInt(5), RInt(7), RInt(8)}
RecommendationGainLoss ==
    {RInt(-20), RInt(-15), RInt(-5), RInt(0), RInt(20), RInt(25)}
RecommendationWeights == {RInt(10), RInt(25), RInt(35), RInt(40)}
RecommendationVolatilities == {RInt(10), RInt(20), RInt(45), RInt(50)}

\* the arguments of analyze_stock_risk: a symbol of the mock table in either case
\* and one outside it, purchase price 0 or 100 against current prices on both
\* sides of it, weights in percent below and above the cap of 30
StockSymbols == {"TSLA", "spy", "AAPL", "XYZ"}
StockQuantities == {RInt(1), RInt(10)}
StockPurchasePrices == {RInt(0), RInt(100)}
StockCurrentPrices == {RInt(80), RInt(95), RInt(100), RInt(130)}
StockWeights == {RInt(0), RInt(5), Rat(25, 2), RInt(30), RInt(40), RInt(100)}

\* the holdings analyze_all_stocks is given: entries of a holdings_analysis (value,
\* weight in percent, individual_volatility), some with price data added, some
\* without a weight or without a volatility
PricedAt(h, purchase_price, current_price) ==
    WithKey(WithKey(WithKey(h, "purchase_price", RInt(purchase_price)),
                    "current_price", RInt(current_price)),
            "quantity", RInt(1))
AnalysedHoldings ==
    {[value |-> RInt(100), weight |-> w, individual_volatility |-> v] :
        w \in {RInt(5), Rat(25, 2), RInt(40)}, v \in {Rat(1, 10), Rat(6, 10)}}
StockHoldingChoices ==
    AnalysedHoldings
    \cup {PricedAt(h, 100, 80) : h \in AnalysedHoldings}
    \cup {PricedAt([value |-> RInt(100), weight |-> Rat(25, 2),
                    individual_volatility |-> Rat(1, 10)], pair[1], pair[2]) :
             pair \in {<<100, 95>>, <<100, 130>>, <<0, 50>>, <<100, 0>>}}
    \cup {[value |-> RInt(100), individual_volatility |-> Rat(1, 10)],
          [value |-> RInt(300), weight |-> RInt(5)]}
StockListInputs ==
    {[i \in 1..Len(hs) |-> WithKey(hs[i], "symbol", <<"TSLA", "spy", "AAPL">>[i])] :
        hs \in SeqsUpTo(StockHoldingChoices, MaxStocks)}

Symbols == <<"AAPL", "MSFT", "TSLA", "SPY", "NVDA">>
Prices(h) == [i \in 1..Len(h) |-> RInt(h[i])]
ReferenceHistory == Prices(<<1, 2, 1>>)
Histories ==
    {Prices(h) :
        h \in {<<>>, <<1, 2>>, <<1, 2, 1>>, <<2, 1, 2>>, <<2, 2, 2>>, <<1, 2, 1, 1>>}}
ReferencePosition == [quantity |-> RInt(1), current_price |-> RInt(1)]
OtherPositions ==
    {[quantity |-> RInt(1), current_price |-> RInt(0)],
     [quantity |-> RInt(2), current_price |-> RInt(1)]}
HoldingChoices ==
    {WithKey(ReferencePosition, "historical_prices", h) : h \in Histories}
    \cup {WithKey(pos, "historical_prices", ReferenceHistory) : pos \in OtherPositions}
    \cup {ReferencePosition} \cup OtherPositions
\* the dicts given to validate_portfolio: symbols over a blank, a lower-case and
\* an upper-case letter and one of 21 letters, quantities and prices below, at and
\* above 0, with or without a date, a field left out, alone or beside a holding
\* that is valid or one that is not
SymbolChars == {" ", "a", "A"}
RawSymbols ==
    SeqsUpTo(SymbolChars, MaxSymbolLen) \cup {[i \in 1..(SymbolMaxLength + 1) |-> "A"]}
RawHoldings ==
    {[symbol |-> sym, quantity |-> q, purchase_price |-> p] :
        sym \in RawSymbols, q \in {RInt(-1), Zero, Rat(1, 2)},
        p \in {RInt(-1), Zero, RInt(10)}}
    \cup {[symbol |-> <<"a">>, quantity |-> RInt(1), purchase_price |-> RInt(10),
           purchase_date |-> date] : date \in {"2024-01-15", "15/01/2024", ""}}
    \cup {[symbol |-> <<"a">>, purchase_price |-> RInt(10)]}
CompanionHoldings ==
    {[symbol |-> <<"A", "A">>, quantity |-> RInt(1), purchase_price |-> RInt(10)],
     [symbol |-> <<"A", "A">>, quantity |-> RInt(0), purchase_price |-> RInt(10)]}
RawPortfolios ==
    LET lists == {<<>>} \cup {<<h>> : h \in RawHoldings}
                 \cup {<<h, g>> : h \in RawHoldings, g \in CompanionHoldings}
                 \cup {<<g, h>> : h \in RawHoldings, g \in CompanionHoldings}
    IN  {[holdings |-> hs] : hs \in lists}
        \cup {[holdings |-> hs, user_profile |-> profile] :
                 hs \in lists, profile \in {"Senior ", "expert"}}
        \cup {[user_profile |-> "beginner"]}

\* validated holdings as enriched: bought at 1 or 2, now at 1 or 2, with or
\* without a fetched history
EnrichedChoices ==
    {[quantity |-> RInt(1), purchase_price |-> RInt(pp), current_price |-> RInt(cp),
      historical_prices |-> h] :
        pp \in 1..2, cp \in 1..2, h \in {<<>>, ReferenceHistory}}
EnrichedPortfolios ==
    {[i \in 1..Len(hs) |-> WithKey(hs[i], "symbol", Symbols[i])] :
        hs \in SeqsUpTo(EnrichedChoices, MaxHoldings) \ {<<>>}}

\* the calls two requests are served with: portfolios, scenarios and stock lists
\* of the sets above, a scenario that raises among them.  Each request holds its
\* own copy of its holdings
RequestArguments(function) ==
    CASE function = "analyze_portfolio_risk" ->
            {<<WithKey(WithKey(ReferencePosition, "historical_prices",
                               ReferenceHistory), "symbol", Symbols[1])>>,
             <<WithKey(WithKey(ReferencePosition, "historical_prices",
                               Prices(<<2, 1, 2>>)), "symbol", Symbols[1]),
               WithKey(WithKey([quantity |-> RInt(2), current_price |-> RInt(1)],
                               "historical_prices", ReferenceHistory),
                       "symbol", Symbols[2])>>,
             <<WithKey(ReferencePosition, "symbol", Symbols[1])>>}
      [] function = "simulate_scenario" ->
            {[scenario_type |-> "add_stock", current_portfolio_value |-> v,
              current_risk_score |-> RInt(5), stock_symbol |-> "SPY",
              change_amount |-> RInt(0)] : v \in {RInt(0), RInt(5000)}}
            \cup {[scenario_type |-> "remove_stock",
                   current_portfolio_value |-> RInt(5000),
                   current_risk_score |-> RInt(5), stock_symbol |-> "nvda",
                   change_amount |-> RInt(5000)]}
      [] function = "analyze_all_stocks" ->
            {<<>>,
             <<WithKey([value |-> RInt(100), weight |-> RInt(40),
                        individual_volatility |-> Rat(6, 10)], "symbol", "TSLA")>>,
             <<WithKey([value |-> RInt(100), weight |-> RInt(5),
                        individual_volatility |-> Rat(1, 10)], "symbol", "TSLA"),
               WithKey(PricedAt([value |-> RInt(100), weight |-> RInt(40),
                                 individual_volatility |-> Rat(6, 10)], 100, 80),
                       "symbol", "spy")>>}

PortfolioInputs ==
    {[i \in 1..Len(hs) |-> WithKey(hs[i], "symbol", Symbols[i])] :
        hs \in SeqsUpTo(HoldingChoices, MaxHoldings)}

Init ==
    /\ pc = "idle"
    /\ fn = "none"
    /\ args = <<>>
    /\ ret = Returned(Zero)
    /\ frame = NoFrame

CallRiskScore ==
    /\ pc = "idle"
    /\ \E v \in Grid(-1, 2), c \in Grid(0, 1), r \in Grid(0, 1), w \in WeightInputs :
          /\ args' = [volatility |-> v, concentration |-> c, correlation |-> r,
                      weights |-> w]
          /\ ret' = Returned(calculate_risk_score(v, c, r, w))
    /\ fn' = "calculate_risk_score"
    /\ pc' = "done"
    /\ frame' = NoFrame

CallReturns ==
    /\ pc = "idle"
    /\ \E prices \in PriceSeriesInputs :
          /\ args' = prices
          /\ ret' = Returned(calculate_returns(prices))
    /\ fn' = "calculate_returns"
    /\ pc' = "done"
    /\ frame' = NoFrame

CallVolatility ==
    /\ pc = "idle"
    /\ \E prices \in PriceSeriesInputs :
          /\ args' = prices
          /\ ret' = Returned(calculate_volatility(prices))
    /\ fn' = "calculate_volatility"
    /\ pc' = "done"
    /\ frame' = NoFrame

CallHHI ==
    /\ pc = "idle"
    /\ \E weights \in WeightSeqInputs :
          /\ args' = weights
          /\ ret' = Returned(calculate_hhi(weights))
    /\ fn' = "calculate_hhi"
    /\ pc' = "done"
    /\ frame' = NoFrame

CallCorrelation ==
    /\ pc = "idle"
    /\ \E returns_matrix \in ReturnsMatrixInputs :
          /\ args' = returns_matrix
          /\ ret' = calculate_correlation(returns_matrix)
    /\ fn' = "calculate_correlation"
    /\ pc' = "done"
    /\ frame' = NoFrame

CallAnalyze ==
    /\ pc = "idle"
    /\ \E enriched_holdings \in PortfolioInputs :
          \E loc \in {AnalysisFrame(enriched_holdings)} :
              /\ args' = enriched_holdings
              /\ ret' = AnalysisOutcome(enriched_holdings, loc)
              /\ frame' = loc
    /\ fn' = "analyze_portfolio_risk"
    /\ pc' = "done"

CallScenario ==
    /\ pc = "idle"
    /\ \E scenario_type \in ScenarioTypes, current_portfolio_value \in ScenarioValues,
          current_risk_score \in ScenarioRiskScores, stock_symbol \in ScenarioSymbols,
          change_amount \in ScenarioAmounts :
          /\ args' = [scenario_type |-> scenario_type,
                      current_portfolio_value |-> current_portfolio_value,
                      current_risk_score |-> current_risk_score,
                      stock_symbol |-> stock_symbol,
                      change_amount |-> change_amount]
          /\ ret' = simulate_scenario(scenario_type, current_portfolio_value,
                                      current_risk_score, stock_symbol, change_amount)
    /\ fn' = "simulate_scenario"
    /\ pc' = "done"
    /\ frame' = NoFrame

CallMultipleScenarios ==
    /\ pc = "idle"
    /\ \E portfolio_value \in ScenarioValues, risk_score \in ScenarioRiskScores,
          largest_holding \in LargestHoldingSymbols,
          largest_holding_value \in LargestHoldingValues :
          /\ args' = [portfolio_value |-> portfolio_value,
                      risk_score |-> risk_score,
                      largest_holding |-> largest_holding,
                      largest_holding_value |-> largest_holding_value]
          /\ ret' = run_multiple_scenarios(portfolio_value, risk_score,
                                           largest_holding, largest_holding_value)
    /\ fn' = "run_multiple_scenarios"
    /\ pc' = "done"
    /\ frame' = NoFrame

CallRecommendation ==
    /\ pc = "idle"
    /\ \E symbol \in RecommendationSymbols, risk_score \in RecommendationRiskScores,
          gain_loss_percent \in RecommendationGainLoss,
          portfolio_weight \in RecommendationWeights,
          volatility \in RecommendationVolatilities :
          /\ args' = [symbol |-> symbol, risk_score |-> risk_score,
                      gain_loss_percent |-> gain_loss_percent,
                      portfolio_weight |-> portfolio_weight,
                      volatility |-> volatility]
          /\ ret' = Returned(generate_stock_recommendation(
                                 symbol, risk_score, gain_loss_percent,
                                 portfolio_weight, volatility))
    /\ fn' = "generate_stock_recommendation"
    /\ pc' = "done"
    /\ frame' = NoFrame

CallStockRisk ==
    /\ pc = "idle"
    /\ \E symbol \in StockSymbols, quantity \in StockQuantities,
          purchase_price \in StockPurchasePrices,
          current_price \in StockCurrentPrices, portfolio_weight \in StockWeights :
          /\ args' = [symbol |-> symbol, quantity |-> quantity,
                      purchase_price |-> purchase_price,
                      current_price |-> current_price,
                      portfolio_weight |-> portfolio_weight]
          /\ ret' = Returned(analyze_stock_risk(symbol, quantity, purchase_price,
                                                current_price, portfolio_weight))
    /\ fn' = "analyze_stock_risk"
    /\ pc' = "done"
    /\ frame' = NoFrame

CallAllStocks ==
    /\ pc = "idle"
    /\ \E holdings \in StockListInputs :
          /\ args' = holdings
          /\ ret' = Returned(analyze_all_stocks(holdings))
    /\ fn' = "analyze_all_stocks"
    /\ pc' = "done"
    /\ frame' = NoFrame

\* enrich_portfolio_with_prices has fetched a current price and a history for each
\* validated holding: the prices are whatever the market gave
CallRunAgentAnalysis ==
    /\ pc = "idle"
    /\ \E enriched_holdings \in EnrichedPortfolios :
          \E analysed \in {analyze_portfolio_risk(enriched_holdings)} :
              \E fallback_scenarios \in
                    {IF analysed.raised # "none" THEN analysed
                     ELSE FallbackScenarios(analysed.value)} :
                  /\ args' = enriched_holdings
                  /\ ret' = AgentAnalysisOutcome(enriched_holdings, analysed,
                                                 fallback_scenarios)
    /\ fn' = "run_agent_analysis"
    /\ pc' = "done"
    /\ frame' = NoFrame

CallValidate ==
    /\ pc = "idle"
    /\ \E portfolio_data \in RawPortfolios :
          /\ args' = portfolio_data
          /\ ret' = Returned(validate_portfolio(portfolio_data))
    /\ fn' = "validate_portfolio"
    /\ pc' = "done"
    /\ frame' = NoFrame

\* two requests arrive; each thread is about to call its core function.  The
\* schedule records the order in which the threads then run
ReceiveRequests ==
    /\ pc = "idle"
    /\ \E called \in [Requests -> CoreFunctions] :
          /\ fn' = called
          /\ \E first \in RequestArguments(called["first"]),
                second \in RequestArguments(called["second"]) :
                args' = [r \in Requests |-> IF r = "first" THEN first ELSE second]
    /\ ret' = [r \in Requests |-> Returned(Zero)]
    /\ frame' = [at |-> [r \in Requests |-> "called"],
                 locals |-> [r \in Requests |-> [f \in CoreFunctions |-> NoFrame]],
                 schedule |-> <<>>]
    /\ pc' = "serving"

\* the thread of request r runs its function up to the return statement
ComputeOf(r) ==
    /\ pc = "serving"
    /\ frame.at[r] = "called"
    /\ frame' = [at |-> [frame.at EXCEPT ![r] = "computed"],
                 locals |-> [frame.locals EXCEPT
                                ![LocalsOf(r)][fn[r]] = CoreLocals(fn[r], args[r])],
                 schedule |-> Append(frame.schedule, r)]
    /\ UNCHANGED <<pc, fn, args, ret>>

\* the thread of request r returns
ReturnOf(r) ==
    /\ pc = "serving"
    /\ frame.at[r] = "computed"
    /\ ret' = [ret EXCEPT
                  ![r] = CoreReturn(fn[r], args[r],
                                    frame.locals[LocalsOf(r)][fn[r]])]
    /\ frame' = [frame EXCEPT !.at[r] = "returned",
                              !.schedule = Append(frame.schedule, r)]
    /\ UNCHANGED <<pc, fn, args>>

Compute == \E r \in Requests : ComputeOf(r)

Return == \E r \in Requests : ReturnOf(r)

\* both responses are sent; nothing of the requests is kept
RequestsServed ==
    /\ pc = "serving"
    /\ \A r \in Requests : frame.at[r] = "returned"
    /\ pc' = "idle"
    /\ fn' = "none"
    /\ args' = <<>>
    /\ ret' = Returned(Zero)
    /\ frame' = NoFrame

\* the caller takes the result; the core keeps nothing of the call
TakeResult ==
    /\ pc = "done"
    /\ pc' = "idle"
    /\ fn' = "none"
    /\ args' = <<>>
    /\ ret' = Returned(Zero)
    /\ frame' = NoFrame

NextRiskScore == CallRiskScore \/ TakeResult
NextReturns == CallReturns \/ TakeResult
NextVolatility == CallVolatility \/ TakeResult
NextHHI == CallHHI \/ TakeResult
NextCorrelation == CallCorrelation \/ TakeResult
NextAnalyze == CallAnalyze \/ TakeResult
NextScenario == CallScenario \/ TakeResult
NextMultipleScenarios == CallMultipleScenarios \/ TakeResult
NextRecommendation == CallRecommendation \/ TakeResult
NextStockAnalyzer == CallStockRisk \/ CallAllStocks \/ TakeResult
NextRunAgentAnalysis == CallRunAgentAnalysis \/ TakeResult
NextValidate == CallValidate \/ TakeResult
NextConcurrent == ReceiveRequests \/ Compute \/ Return \/ RequestsServed

Next ==
    \/ CallRiskScore
    \/ CallReturns
    \/ CallVolatility
    \/ CallHHI
    \/ CallCorrelation
    \/ CallAnalyze
    \/ CallScenario
    \/ CallMultipleScenarios
    \/ CallRecommendation
    \/ CallStockRisk
    \/ CallAllStocks
    \/ CallRunAgentAnalysis
    \/ CallValidate
    \/ TakeResult
    \/ ReceiveRequests
    \/ Compute
    \/ Return
    \/ RequestsServed

SpecRiskScore == Init /\ [][NextRiskScore]_vars
SpecReturns == Init /\ [][NextReturns]_vars
SpecVolatility == Init /\ [][NextVolatility]_vars
SpecHHI == Init /\ [][NextHHI]_vars
SpecCorrelation == Init /\ [][NextCorrelation]_vars
SpecAnalyze == Init /\ [][NextAnalyze]_vars
SpecScenario == Init /\ [][NextScenario]_vars
SpecMultipleScenarios == Init /\ [][NextMultipleScenarios]_vars
SpecRecommendation == Init /\ [][NextRecommendation]_vars
SpecStockAnalyzer == Init /\ [][NextStockAnalyzer]_vars
SpecRunAgentAnalysis == Init /\ [][NextRunAgentAnalysis]_vars
SpecValidate == Init /\ [][NextValidate]_vars
SpecConcurrent == Init /\ [][NextConcurrent]_vars
Spec == Init /\ [][Next]_vars

---------------------------------------------------------------------------
(* Properties of calculate_risk_score *)

ScoreReturned == pc = "done" /\ fn = "calculate_risk_score"

InUnitInterval(x) == RLe(Zero, x) /\ RLe(x, One)

\* volatility >= 0, concentration and correlation in [0,1], weights >= 0 summing to 1
InScorerDomain(a) ==
    /\ RLe(Zero, a.volatility)
    /\ InUnitInterval(a.concentration)
    /\ InUnitInterval(a.correlation)
    /\ \A k \in 1..3 : RLe(Zero, a.weights[k])
    /\ RSum(a.weights) = One

\* C1: for every volatility >= 0, every concentration and correlation in [0,1] and
\* every tuple of non-negative weights summing to 1, calculate_risk_score returns a
\* value in [1.0, 10.0].
C1_ScoreInRange ==
    (ScoreReturned /\ InScorerDomain(args)) =>
        /\ ret.raised = "none"
        /\ RLe(One, ret.value)
        /\ RLe(ret.value, RInt(10))

\* a volatility above 100% with full concentration and correlation: the score is 10
C1_Witness ==
    /\ ScoreReturned
    /\ InScorerDomain(args)
    /\ RLt(One, args.volatility)
    /\ args.concentration = One
    /\ args.correlation = One
    /\ ret.value = RInt(10)

\* clamp(x, 0, 1)
ClampUnit(x) == PyMax(Zero, PyMin(One, x))

\* C7: calculate_risk_score computes
\* round(clamp(1 + 9 * (w_vol * clamp(volatility, 0, 1) + w_conc * concentration
\* + w_corr * correlation), 1, 10), 2), the volatility clamped on both sides, so a
\* volatility below 0 scores as 0.
C7_VolatilityClampedBothSides ==
    ScoreReturned =>
        ret.value =
            PyRound(ClampScore(RAdd(One, RMul(RInt(9),
                RAdd(RAdd(RMul(args.weights[1], ClampUnit(args.volatility)),
                          RMul(args.weights[2], args.concentration)),
                     RMul(args.weights[3], args.correlation))))), 100)

\* C8: calculate_risk_score(0, 0, 0, w) = 1.0 for every weight tuple w, and
\* calculate_risk_score(1, 1, 1, w) = 10.0 for every w whose components sum to 1.
C8_Saturation ==
    ScoreReturned =>
        /\ (/\ args.volatility = Zero
            /\ args.concentration = Zero
            /\ args.correlation = Zero) => ret.value = One
        /\ (/\ args.volatility = One
            /\ args.concentration = One
            /\ args.correlation = One
            /\ RSum(args.weights) = One) => ret.value = RInt(10)

\* all three inputs at 1 under weights other than the default that sum to 1
C8_Witness ==
    /\ ScoreReturned
    /\ args.volatility = One
    /\ args.concentration = One
    /\ args.correlation = One
    /\ args.weights # DefaultWeights
    /\ RSum(args.weights) = One
    /\ ret.value = RInt(10)

\* C9: with the default weights, raising one of volatility, concentration and
\* correlation while the other two stay fixed never lowers the score.
C9_Monotone ==
    (ScoreReturned /\ args.weights = DefaultWeights) =>
        \A x \in Grid(-1, 2) :
            /\ RLe(args.volatility, x) =>
                  RLe(ret.value,
                      calculate_risk_score(x, args.concentration, args.correlation,
                                           DefaultWeights))
            /\ RLe(args.concentration, x) =>
                  RLe(ret.value,
                      calculate_risk_score(args.volatility, x, args.correlation,
                                           DefaultWeights))
            /\ RLe(args.correlation, x) =>
                  RLe(ret.value,
                      calculate_risk_score(args.volatility, args.concentration, x,
                                           DefaultWeights))

\* a score that a higher concentration strictly raises
C9_Witness ==
    /\ ScoreReturned
    /\ args.weights = DefaultWeights
    /\ args.concentration = Zero
    /\ RLt(ret.value,
           calculate_risk_score(args.volatility, One, args.correlation, DefaultWeights))

---------------------------------------------------------------------------
(* Properties of calculate_returns and calculate_correlation *)

\* C6: for every price series that holds a price of 0, calculate_returns returns
\* without failing and every returned element is a finite number.
C6_ReturnsFinite ==
    (/\ pc = "done"
     /\ fn = "calculate_returns"
     /\ \E i \in 1..Len(args) : args[i] = Zero) =>
        /\ ret.raised = "none"
        /\ \A i \in 1..Len(ret.value) : IsFinite(ret.value[i])

\* C4: for every list of return series, calculate_correlation raises nothing and
\* returns a number in [0,1] that is not nan.
C4_CorrelationTotal ==
    (pc = "done" /\ fn = "calculate_correlation") =>
        /\ ret.raised = "none"
        /\ IsFinite(ret.value)
        /\ InUnitInterval(ret.value)

---------------------------------------------------------------------------
(* Properties of analyze_portfolio_risk *)

AnalysisReturned == pc = "done" /\ fn = "analyze_portfolio_risk"

\* sum over the holdings of current_price x quantity
TotalValueOf(enriched_holdings) ==
    RSum([i \in 1..Len(enriched_holdings) |->
             RMul(enriched_holdings[i].current_price, enriched_holdings[i].quantity)])

\* C3: on an empty holdings list analyze_portfolio_risk raises nothing and returns
\* risk_score = 0, volatility = concentration = correlation_risk = 0 and the marker
\* error = "Empty portfolio".
C3_EmptyPortfolio ==
    (AnalysisReturned /\ args = <<>>) =>
        /\ ret.raised = "none"
        /\ ret.value.risk_score = Zero
        /\ DOMAIN ret.value =
               {"risk_score", "volatility", "concentration", "correlation_risk", "error"}
        /\ ret.value.volatility = Zero
        /\ ret.value.concentration = Zero
        /\ ret.value.correlation_risk = Zero
        /\ ret.value.error = "Empty portfolio"

C3_Witness ==
    /\ AnalysisReturned
    /\ args = <<>>
    /\ ret.value.risk_score = Zero

\* C2: a non-empty holdings list whose total value is 0 gets the same degenerate
\* result as an empty list: risk_score = 0, all metrics 0, the empty-portfolio marker.
C2_ZeroValueDegenerate ==
    (AnalysisReturned /\ args # <<>> /\ TotalValueOf(args) = Zero) =>
        /\ ret.raised = "none"
        /\ ret.value.risk_score = Zero
        /\ "error" \in DOMAIN ret.value

\* the return series of the holdings that have at least 2 return points
SeriesWithTwoReturns(enriched_holdings) ==
    SelectSeq([i \in 1..Len(enriched_holdings) |->
                  calculate_returns(Get(enriched_holdings[i], "historical_prices", <<>>))],
              LAMBDA r : Len(r) >= 2)

\* C5: the portfolio correlation is the correlation of the return series of the
\* holdings that have at least 2 return points; a holding with fewer is left out and
\* does not change it.
C5_ShortSeriesLeftOut ==
    (AnalysisReturned /\ args # <<>>) =>
        frame.correlation_risk = calculate_correlation(SeriesWithTwoReturns(args))

\* C10: weight_i = value_i / total_value for every holding, so the weights sum to 1
\* whenever total_value > 0, and every weight is 0 when total_value is 0.
C10_WeightsSumToOne ==
    (AnalysisReturned /\ args # <<>>) =>
        LET total == TotalValueOf(args)
        IN  /\ Len(frame.weights) = Len(args)
            /\ \A i \in 1..Len(args) :
                  /\ frame.holdings_with_value[i].weight = frame.weights[i]
                  /\ RLt(Zero, total) =>
                        RMul(frame.weights[i], total) =
                            RMul(args[i].current_price, args[i].quantity)
            /\ RLt(Zero, total) => RSum(frame.weights) = One
            /\ total = Zero => \A i \in 1..Len(args) : frame.weights[i] = Zero

\* three holdings of positive total value, one of them with a larger weight
C10_Witness ==
    /\ AnalysisReturned
    /\ Len(args) = 3
    /\ RLt(Zero, frame.total_value)
    /\ \E i, j \in 1..3 : RLt(Zero, frame.weights[i]) /\ RLt(frame.weights[i], frame.weights[j])
    /\ RSum(frame.weights) = One


---------------------------------------------------------------------------
(* Properties of calculate_hhi *)

HHIReturned == pc = "done" /\ fn = "calculate_hhi"

\* the number of weights of ws that are not 0
RECURSIVE CountNonzero(_)
CountNonzero(ws) ==
    IF ws = <<>> THEN 0
    ELSE (IF Head(ws) # Zero THEN 1 ELSE 0) + CountNonzero(Tail(ws))

\* C11 as stated: calculate_hhi returns 1.0 for every weight sequence with exactly
\* one nonzero weight, whatever the value of that weight.
C11_SingleNonzeroAnyValue ==
    (HHIReturned /\ CountNonzero(args) = 1) => ret.value = One

\* C11 as amended: calculate_hhi returns 1.0 for every weight sequence with exactly
\* one nonzero weight when that weight is positive, and 0.0 when it is negative.
C11_SingleNonzeroWeight ==
    (HHIReturned /\ CountNonzero(args) = 1) =>
        /\ ret.raised = "none"
        /\ RLt(Zero, RSum(args)) => ret.value = One
        /\ RLt(RSum(args), Zero) => ret.value = Zero

\* one weight above 1 among zero weights
C11_Witness ==
    /\ HHIReturned
    /\ Len(args) >= 2
    /\ CountNonzero(args) = 1
    /\ RLt(One, RSum(args))
    /\ ret.value = One

\* C12: calculate_hhi returns 1/n for every sequence of n >= 1 equal positive weights.
C12_EqualWeights ==
    (/\ HHIReturned
     /\ Len(args) >= 1
     /\ \A i \in 1..Len(args) : args[i] = args[1] /\ RLt(Zero, args[i])) =>
        ret.value = Rat(1, Len(args))

\* several equal weights that do not sum to 1
C12_Witness ==
    /\ HHIReturned
    /\ Len(args) >= 2
    /\ \A i \in 1..Len(args) : args[i] = args[1] /\ RLt(Zero, args[i])
    /\ RSum(args) # One
    /\ ret.value = Rat(1, Len(args))

ScaleFactors == {Rat(1, 2), Rat(3, 2), RInt(2), RInt(3)}

Scaled(k, ws) == [i \in 1..Len(ws) |-> RMul(k, ws[i])]

\* C13: for every weight sequence w and every k > 0, calculate_hhi(k*w) =
\* calculate_hhi(w).
C13_ScaleInvariant ==
    HHIReturned =>
        \A k \in ScaleFactors : calculate_hhi(Scaled(k, args)) = ret.value

\* unequal positive weights, so the index is strictly between 1/n and 1
C13_Witness ==
    /\ HHIReturned
    /\ Len(args) >= 2
    /\ \A i \in 1..Len(args) : RLt(Zero, args[i])
    /\ RLt(Rat(1, Len(args)), ret.value)
    /\ RLt(ret.value, One)

\* C14: calculate_hhi returns 0.0 when the weight sequence is empty or its sum is
\* <= 0; otherwise the sum of the squares of the weights normalised to sum to 1.
C14_ZeroOrNormalisedSquares ==
    HHIReturned =>
        /\ ret.raised = "none"
        /\ (args = <<>> \/ RLe(RSum(args), Zero)) => ret.value = Zero
        /\ (args # <<>> /\ RLt(Zero, RSum(args))) =>
              /\ RMul(ret.value, RMul(RSum(args), RSum(args))) =
                     RSum([i \in 1..Len(args) |-> RMul(args[i], args[i])])
              /\ RSum([i \in 1..Len(args) |-> RDiv(args[i], RSum(args))]) = One

\* a non-empty sequence whose weights sum to less than 0
C14_Witness ==
    /\ HHIReturned
    /\ args # <<>>
    /\ RLt(RSum(args), Zero)
    /\ ret.value = Zero

---------------------------------------------------------------------------
(* Properties of calculate_volatility and calculate_returns *)

\* C15: calculate_volatility returns exactly 0.0 for every price series that yields
\* fewer than 2 returns: every series of length < 2 and the series of length 2.
C15_ShortSeriesZero ==
    (pc = "done" /\ fn = "calculate_volatility" /\ Len(args) <= 2) =>
        /\ ret.raised = "none"
        /\ ret.value = Zero

\* a series of two different prices: one return
C15_Witness ==
    /\ pc = "done"
    /\ fn = "calculate_volatility"
    /\ Len(args) = 2
    /\ args[1] # args[2]
    /\ ret.value = Zero

\* C16: on a series p of n >= 2 nonzero prices calculate_returns returns exactly
\* n - 1 values, r[i] = (p[i+1] - p[i]) / p[i] in order; on a series of length < 2 it
\* returns the empty list and does not raise.
C16_SimpleReturns ==
    (pc = "done" /\ fn = "calculate_returns") =>
        /\ ret.raised = "none"
        /\ Len(args) < 2 => ret.value = <<>>
        /\ (Len(args) >= 2 /\ \A i \in 1..Len(args) : args[i] # Zero) =>
              /\ Len(ret.value) = Len(args) - 1
              /\ \A i \in 1..(Len(args) - 1) :
                    /\ IsFinite(ret.value[i])
                    /\ RMul(ret.value[i], args[i]) = RSub(args[i + 1], args[i])

\* a rise followed by a fall
C16_Witness ==
    /\ pc = "done"
    /\ fn = "calculate_returns"
    /\ Len(args) >= 3
    /\ \A i \in 1..Len(args) : args[i] # Zero
    /\ RLt(Zero, ret.value[1])
    /\ RLt(ret.value[2], Zero)


---------------------------------------------------------------------------
(* A holding without price history in analyze_portfolio_risk *)

HistoryOf(holding) == Get(holding, "historical_prices", <<>>)

\* the positions of the holdings whose history is missing or empty
WithoutHistory(enriched_holdings) ==
    {i \in 1..Len(enriched_holdings) : HistoryOf(enriched_holdings[i]) = <<>>}

FlatHistory == Prices(<<2, 2, 2>>)

\* the portfolio with holding i given a flat history
WithFlatHistory(enriched_holdings, i) ==
    [enriched_holdings EXCEPT ![i] = WithKey(@, "historical_prices", FlatHistory)]

\* s without its i-th element
Without(s, i) == SubSeq(s, 1, i - 1) \o SubSeq(s, i + 1, Len(s))

\* the sub-sequence of s at the positions not in skip
RECURSIVE Keep(_, _, _)
Keep(s, skip, i) ==
    IF i > Len(s) THEN <<>>
    ELSE (IF i \in skip THEN <<>> ELSE <<s[i]>>) \o Keep(s, skip, i + 1)

\* C17: a holding with missing or empty historical_prices never makes
\* analyze_portfolio_risk fail: it contributes 0 to portfolio volatility, is left
\* out of the correlation input, is still listed in holdings_analysis with
\* individual_volatility 0, and the other holdings' contributions (their weights and
\* their weighted volatilities, hence portfolio volatility and concentration) are the
\* same as if the holding had a flat history.
C17_MissingHistoryDegrades ==
    (AnalysisReturned /\ WithoutHistory(args) # {}) =>
        LET skip == WithoutHistory(args)
            others == Keep(frame.holdings_with_value, skip, 1)
        IN  /\ ret.raised = "none"
            /\ frame.individual_volatilities =
                   [j \in 1..Len(others) |->
                       RMul(calculate_volatility(others[j].historical_prices),
                            others[j].weight)]
            /\ frame.portfolio_volatility = RSum(frame.individual_volatilities)
            /\ Len(frame.all_returns) <= Len(others)
            /\ \A r \in 1..Len(frame.all_returns) : frame.all_returns[r] # <<>>
            /\ frame.all_returns =
                   SelectSeq([j \in 1..Len(others) |->
                                 calculate_returns(others[j].historical_prices)],
                             LAMBDA r : r # <<>>)
            /\ Len(ret.value.holdings_analysis) = Len(args)
            /\ \A i \in skip :
                  /\ ret.value.holdings_analysis[i].symbol = args[i].symbol
                  /\ ret.value.holdings_analysis[i].individual_volatility = Zero
                  /\ LET flat == LoopLocals(WithFlatHistory(args, i))
                         at == Cardinality({j \in 1..i : j \notin skip}) + 1
                     IN  /\ flat.weights = frame.weights
                         /\ flat.individual_volatilities[at] = Zero
                         /\ Without(flat.individual_volatilities, at) =
                                frame.individual_volatilities
                         /\ flat.portfolio_volatility = frame.portfolio_volatility
                         /\ calculate_hhi(flat.weights) = frame.concentration

\* a holding without history between two holdings whose volatility is not 0
C17_Witness ==
    /\ AnalysisReturned
    /\ Len(args) = 3
    /\ WithoutHistory(args) = {2}
    /\ ret.raised = "none"
    /\ RLt(Zero, frame.weights[2])
    /\ Len(frame.individual_volatilities) = 2
    /\ RLt(Zero, frame.individual_volatilities[1])
    /\ RLt(Zero, frame.individual_volatilities[2])
    /\ Len(frame.all_returns) = 2
    /\ ret.value.holdings_analysis[2].individual_volatility = Zero


---------------------------------------------------------------------------
(* Properties of simulate_scenario *)

ScenarioReturned == pc = "done" /\ fn = "simulate_scenario"

\* the risk change the claim gives for a symbol, by its upper-cased spelling
ClaimedAddStockChange(stock_symbol) ==
    IF stock_symbol \in {"SPY", "spy", "Qqq"} THEN Rat(-8, 10)
    ELSE IF stock_symbol \in {"TSLA", "nvda", "Coin"} THEN Rat(6, 10)
    ELSE Rat(2, 10)

\* clamp(x, 1, 10)
ClampRisk(x) == IF RLt(x, RInt(1)) THEN RInt(1) ELSE IF RLt(RInt(10), x) THEN RInt(10) ELSE x

\* what C18 says of an add_stock call that returned
AddStockAsClaimed ==
    /\ ret.value.new_value =
           RAdd(args.current_portfolio_value, args.change_amount)
    /\ ret.value.new_risk_score =
           PyRound(ClampRisk(RAdd(args.current_risk_score,
                                  ClaimedAddStockChange(args.stock_symbol))), 100)
    /\ (/\ args.current_portfolio_value = RInt(100000)
        /\ args.current_risk_score = RInt(5)
        /\ args.change_amount = RInt(10000)) =>
           /\ ret.value.new_value = RInt(110000)
           /\ args.stock_symbol = "SPY" => ret.value.new_risk_score = Rat(42, 10)
           /\ args.stock_symbol = "TSLA" => ret.value.new_risk_score = Rat(56, 10)

\* C18: simulate_scenario('add_stock', V, R, sym, A) returns new_value = V + A and
\* new_risk_score = round(min(10, max(1, R + d)), 2), d = -0.8 for an index fund,
\* +0.6 for a high-volatility symbol, +0.2 otherwise (110000 and 4.2 for SPY, 5.6
\* for TSLA on V = 100000, R = 5.0, A = 10000).
C18_AddStock ==
    (ScenarioReturned /\ args.scenario_type = "add_stock") =>
        /\ ret.raised = "none"
        /\ AddStockAsClaimed

\* the add_stock calls that return do as C18 says: the calls with V + A = 0 are the
\* only ones that do not
C18_AddStockWhenReturned ==
    (ScenarioReturned /\ args.scenario_type = "add_stock") =>
        /\ ret.raised = "none" <=>
               RAdd(args.current_portfolio_value, args.change_amount) # Zero
        /\ ret.raised = "none" => AddStockAsClaimed

\* C19: for every scenario type, current risk score, symbol and amount for which
\* simulate_scenario returns, new_risk_score lies in [1, 10] and equals
\* clamp(current_risk_score + risk_change, 1, 10) rounded to 2 decimals.
C19_NewRiskClamped ==
    (ScenarioReturned /\ ret.raised = "none") =>
        /\ RLe(RInt(1), ret.value.new_risk_score)
        /\ RLe(ret.value.new_risk_score, RInt(10))
        /\ ret.value.new_risk_score =
               PyRound(ClampRisk(RAdd(args.current_risk_score,
                                      ret.value.risk_change)), 100)

\* the degenerate score 0 lowered further, and a score above 10
C19_Witness ==
    /\ ScenarioReturned
    /\ ret.raised = "none"
    /\ \/ /\ args.current_risk_score = Zero
          /\ RLt(ret.value.risk_change, Zero)
          /\ ret.value.new_risk_score = RInt(1)
       \/ /\ RLt(RInt(10), args.current_risk_score)
          /\ args.scenario_type = "rebalance"
          /\ ret.value.new_risk_score = RInt(10)

\* C20: simulate_scenario never raises: for every scenario type, portfolio value and
\* change amount, the projected new value 0 included, it returns a result.
C20_NeverRaises ==
    ScenarioReturned => ret.raised = "none"


\* C21: for remove_stock and decrease_position the risk delta does not depend on
\* the symbol: calls that differ only in stock_symbol return the same risk_change
\* and new_risk_score (remove: +0.3, or 0 when the portfolio value is <= 0;
\* decrease: -0.2), and both deltas are smaller in magnitude than the add_stock
\* deltas for index and high-volatility symbols.
C21_DeltaIndependentOfSymbol ==
    (ScenarioReturned /\ args.scenario_type \in {"remove_stock", "decrease_position"}) =>
        /\ ret.raised = "none"
        /\ \A other \in ScenarioSymbols :
              LET r == simulate_scenario(args.scenario_type,
                                         args.current_portfolio_value,
                                         args.current_risk_score, other,
                                         args.change_amount)
              IN  /\ r.raised = "none"
                  /\ r.value.risk_change = ret.value.risk_change
                  /\ r.value.new_risk_score = ret.value.new_risk_score
        /\ args.scenario_type = "remove_stock" =>
              ret.value.risk_change =
                  (IF RLt(Zero, args.current_portfolio_value) THEN Rat(3, 10)
                   ELSE Zero)
        /\ args.scenario_type = "decrease_position" =>
              ret.value.risk_change = Rat(-2, 10)
        /\ \A sym \in ScenarioSymbols :
              Upper(sym) \in IndexFunds \cup HighVolatilityStocks =>
                  RLt(RAbs(ret.value.risk_change), RAbs(AddStockRiskChange(sym)))

\* a removal of a high-volatility symbol from a portfolio that has value
C21_Witness ==
    /\ ScenarioReturned
    /\ args.scenario_type = "remove_stock"
    /\ args.stock_symbol = "TSLA"
    /\ RLt(Zero, args.current_portfolio_value)
    /\ ret.raised = "none"
    /\ ret.value.risk_change = Rat(3, 10)

KnownScenarioTypes == {"add_stock", "remove_stock", "increase_position"}

\* C30: simulate_scenario treats every scenario_type other than 'add_stock',
\* 'remove_stock' and 'increase_position' ('add' included) as decrease_position:
\* new_value = max(0, current value - change_amount), risk_change = -0.2 and impact
\* POSITIVE, with no error reported.
C30_OtherTypesAreDecrease ==
    (ScenarioReturned /\ args.scenario_type \notin KnownScenarioTypes) =>
        /\ ret.raised = "none"
        /\ "error" \notin DOMAIN ret.value
        /\ ret.value.scenario_type = args.scenario_type
        /\ ret.value.scenario.verb = "Decrease"
        /\ ret.value.new_value =
               (LET v == RSub(args.current_portfolio_value, args.change_amount)
                IN  IF RLt(v, Zero) THEN Zero ELSE v)
        /\ ret.value.risk_change = Rat(-2, 10)
        /\ ret.value.impact = "POSITIVE"
        /\ LET d == simulate_scenario("decrease_position",
                                       args.current_portfolio_value,
                                       args.current_risk_score, args.stock_symbol,
                                       args.change_amount)
           IN  ret.value = [d.value EXCEPT !.scenario_type = args.scenario_type]

\* the kind 'add' with an amount above the portfolio value
C30_Witness ==
    /\ ScenarioReturned
    /\ args.scenario_type = "add"
    /\ RLt(args.current_portfolio_value, args.change_amount)
    /\ ret.raised = "none"
    /\ ret.value.new_value = Zero
    /\ ret.value.impact = "POSITIVE"


---------------------------------------------------------------------------
(* Properties of run_multiple_scenarios *)

MultipleReturned == pc = "done" /\ fn = "run_multiple_scenarios"

\* the positions whose new_risk_score no other position undercuts
LowestRisk(scenarios) ==
    {i \in 1..Len(scenarios) :
        \A j \in 1..Len(scenarios) :
            RLe(scenarios[i].new_risk_score, scenarios[j].new_risk_score)}

\* the least element of a non-empty set of positions
Earliest(S) == CHOOSE i \in S : \A j \in S : i <= j

---------------------------------------------------------------------------
(* Properties of the stock analyzer *)

RecommendationReturned == pc = "done" /\ fn = "generate_stock_recommendation"

\* the conditions of the rule table that hold of the call's arguments
FiredSellRules ==
    {k \in 1..4 :
        \/ k = 1 /\ ~RLt(args.risk_score, RInt(7))
        \/ k = 2 /\ RLt(args.gain_loss_percent, RInt(-15))
        \/ k = 3 /\ RLt(RInt(35), args.portfolio_weight)
        \/ k = 4 /\ RLt(RInt(45), args.volatility)}

FiredHoldRules ==
    {k \in 1..3 :
        \/ k = 1 /\ RLt(RInt(20), args.gain_loss_percent)
        \/ k = 2 /\ ~RLt(RInt(3), args.risk_score)
        \/ k = 3 /\ RLt(args.volatility, RInt(20))
                 /\ RLt(args.portfolio_weight, RInt(25))}

\* C23: with s fired sell signals and h fired hold signals the result of
\* generate_stock_recommendation is SELL when s >= 2 (HIGH when s >= 3, else
\* MEDIUM), REDUCE/MEDIUM when s = 1 and h = 0, HOLD/HIGH when s <= 1 and h >= 2,
\* HOLD/LOW in every remaining case; risk 8, loss -20%, weight 40%, volatility 50%
\* gives SELL with confidence HIGH.
C23_RuleTable ==
    RecommendationReturned =>
        LET sn == Cardinality(FiredSellRules)
            hn == Cardinality(FiredHoldRules)
            got == <<ret.value.recommendation, ret.value.confidence>>
        IN  /\ ret.raised = "none"
            /\ sn >= 3 => got = <<"SELL", "HIGH">>
            /\ sn = 2 => got = <<"SELL", "MEDIUM">>
            /\ (sn = 1 /\ hn = 0) => got = <<"REDUCE", "MEDIUM">>
            /\ (sn <= 1 /\ hn >= 2) => got = <<"HOLD", "HIGH">>
            /\ (sn = 0 /\ hn <= 1) \/ (sn = 1 /\ hn = 1) => got = <<"HOLD", "LOW">>
            /\ (/\ args.risk_score = RInt(8)
                /\ args.gain_loss_percent = RInt(-20)
                /\ args.portfolio_weight = RInt(40)
                /\ args.volatility = RInt(50)) => got = <<"SELL", "HIGH">>

\* exactly two sell signals beside two hold signals: SELL wins, with MEDIUM
C23_Witness ==
    /\ RecommendationReturned
    /\ Cardinality(FiredSellRules) = 2
    /\ Cardinality(FiredHoldRules) = 2
    /\ ret.value.recommendation = "SELL"
    /\ ret.value.confidence = "MEDIUM"


StockRiskReturned == pc = "done" /\ fn = "analyze_stock_risk"
AllStocksReturned == pc = "done" /\ fn = "analyze_all_stocks"

\* min(volatility * 10, 5) + min(weight% / 10, 3) + loss_points
ComponentSum(volatility, weight, gain_loss_percent) ==
    LET volatility_points ==
            IF RLt(RInt(5), RMul(volatility, RInt(10))) THEN RInt(5)
            ELSE RMul(volatility, RInt(10))
        weight_points ==
            IF RLt(RInt(30), weight) THEN RInt(3) ELSE RDiv(weight, RInt(10))
        loss_points ==
            IF RLt(gain_loss_percent, RInt(-10)) THEN RInt(2)
            ELSE IF RLt(gain_loss_percent, Zero) THEN RInt(1) ELSE Zero
    IN  RAdd(RAdd(volatility_points, weight_points), loss_points)

\* LOW for score <= 3, MODERATE for <= 5, ELEVATED for <= 7, HIGH above 7
LevelOf(score) ==
    CASE RLe(score, RInt(3)) -> "LOW"
      [] RLt(RInt(3), score) /\ RLe(score, RInt(5)) -> "MODERATE"
      [] RLt(RInt(5), score) /\ RLe(score, RInt(7)) -> "ELEVATED"
      [] RLt(RInt(7), score) -> "HIGH"

\* the volatility, weight % and gain/loss % a call of analyze_stock_risk scores
StockRiskInputs ==
    [volatility |-> MockVolatility(Upper(args.symbol)),
     weight |-> args.portfolio_weight,
     gain_loss_percent |->
         IF RLt(Zero, args.purchase_price)
         THEN RDiv(RMul(RSub(args.current_price, args.purchase_price), RInt(100)),
                   args.purchase_price)
         ELSE Zero]

\* the same three for a holding given to analyze_all_stocks
HoldingRiskInputs(holding, holdings) ==
    [volatility |->
         IF "individual_volatility" \in DOMAIN holding
         THEN holding.individual_volatility
         ELSE MockVolatility(Upper(holding.symbol)),
     weight |->
         IF "weight" \in DOMAIN holding THEN holding.weight
         ELSE RDiv(RMul(holding.value, RInt(100)),
                   RSum([i \in 1..Len(holdings) |-> holdings[i].value])),
     gain_loss_percent |->
         IF /\ "purchase_price" \in DOMAIN holding
            /\ RLt(Zero, holding.purchase_price)
            /\ RLt(Zero, holding.current_price)
         THEN RDiv(RMul(RSub(holding.current_price, holding.purchase_price),
                        RInt(100)), holding.purchase_price)
         ELSE Zero]

\* the entry of the result that analyses the holding of this symbol
AnalysisOf(symbol) ==
    LET at == CHOOSE i \in 1..Len(ret.value.stock_analyses) :
                  ret.value.stock_analyses[i].symbol = Upper(symbol)
    IN  ret.value.stock_analyses[at]

\* score and level are in range and belong together
ScoreAndLevelAgree(analysis) ==
    /\ RLe(RInt(1), analysis.risk_score)
    /\ RLe(analysis.risk_score, RInt(10))
    /\ analysis.risk_level = LevelOf(analysis.risk_score)

\* C24 as stated: the per-stock risk score of analyze_stock_risk and of
\* analyze_all_stocks is clamp(min(volatility*10, 5) + min(weight%/10, 3) +
\* loss_points, 1, 10), lies in [1,10], and the level is LOW for score <= 3,
\* MODERATE for <= 5, ELEVATED for <= 7 and HIGH above 7.
C24_ScoreIsClampedSum ==
    /\ StockRiskReturned =>
          /\ ScoreAndLevelAgree(ret.value)
          /\ ret.value.risk_score =
                 ClampRisk(ComponentSum(StockRiskInputs.volatility,
                                        StockRiskInputs.weight,
                                        StockRiskInputs.gain_loss_percent))
    /\ AllStocksReturned =>
          \A i \in 1..Len(args) :
              LET in == HoldingRiskInputs(args[i], args)
              IN  /\ ScoreAndLevelAgree(AnalysisOf(args[i].symbol))
                  /\ AnalysisOf(args[i].symbol).risk_score =
                         ClampRisk(ComponentSum(in.volatility, in.weight,
                                                in.gain_loss_percent))

\* C24 as amended: the score is the same sum rounded to one decimal and then
\* clamped to [1,10]; it lies in [1,10] and the level follows the rounded score.
C24_ScoreIsClampedRoundedSum ==
    /\ StockRiskReturned =>
          /\ ret.raised = "none"
          /\ ScoreAndLevelAgree(ret.value)
          /\ ret.value.risk_score =
                 ClampRisk(PyRound(ComponentSum(StockRiskInputs.volatility,
                                                StockRiskInputs.weight,
                                                StockRiskInputs.gain_loss_percent),
                                   10))
    /\ AllStocksReturned =>
          /\ ret.raised = "none"
          /\ Len(ret.value.stock_analyses) = Len(args)
          /\ \A i \in 1..Len(args) :
                LET in == HoldingRiskInputs(args[i], args)
                IN  /\ ScoreAndLevelAgree(AnalysisOf(args[i].symbol))
                    /\ AnalysisOf(args[i].symbol).risk_score =
                           ClampRisk(PyRound(ComponentSum(in.volatility, in.weight,
                                                          in.gain_loss_percent),
                                             10))

\* the components sum to 2.75 and the score is 2.8, still LOW
C24_Witness ==
    /\ StockRiskReturned
    /\ ComponentSum(StockRiskInputs.volatility, StockRiskInputs.weight,
                    StockRiskInputs.gain_loss_percent) = Rat(275, 100)
    /\ ret.value.risk_score = Rat(28, 10)
    /\ ret.value.risk_level = "LOW"


---------------------------------------------------------------------------
(* analyze_portfolio_risk and the caller's holdings *)

\* C27: analyze_portfolio_risk does not mutate its input: after the call the
\* caller's holdings list and every holding record in it (its historical_prices
\* included) are unchanged and carry no added value or weight fields; the computed
\* values live only in the returned result.
C27_InputNotMutated ==
    (AnalysisReturned /\ args # <<>>) =>
        /\ frame.enriched_holdings = args
        /\ \A i \in 1..Len(args) :
              /\ DOMAIN frame.enriched_holdings[i] \cap {"value", "weight"} = {}
              /\ Get(frame.enriched_holdings[i], "historical_prices", <<>>) =
                     Get(args[i], "historical_prices", <<>>)
              /\ {"value", "weight"} \subseteq DOMAIN frame.holdings_with_value[i]
        /\ ret.raised = "none" =>
              /\ Len(ret.value.holdings_analysis) = Len(args)
              /\ \A i \in 1..Len(args) :
                    ret.value.holdings_analysis[i].value =
                        PyRound(frame.holdings_with_value[i].value, 100)

\* two holdings with history, both given a value and a weight above 0 in the copies
C27_Witness ==
    /\ AnalysisReturned
    /\ Len(args) = 2
    /\ \A i \in 1..2 :
          /\ Get(args[i], "historical_prices", <<>>) # <<>>
          /\ RLt(Zero, frame.holdings_with_value[i].weight)
          /\ "weight" \notin DOMAIN frame.enriched_holdings[i]
    /\ RLt(Zero, ret.value.total_value)


---------------------------------------------------------------------------
(* The end-to-end analysis *)

RunReturned == pc = "done" /\ fn = "run_agent_analysis"

\* the entry of the stock analysis for the holding of this symbol
StockEntryOf(symbol) ==
    LET entries == ret.value.stock_analysis.stock_analyses
    IN  entries[CHOOSE i \in 1..Len(entries) : entries[i].symbol = symbol]

\* (current_price - purchase_price) / purchase_price * 100, 0 when purchase_price <= 0
HoldingGainLoss(holding) ==
    IF RLt(Zero, holding.purchase_price)
    THEN RDiv(RMul(RSub(holding.current_price, holding.purchase_price), RInt(100)),
              holding.purchase_price)
    ELSE Zero

\* C25: in the end-to-end analysis the per-stock classification of each holding
\* uses gain/loss % = (current_price - purchase_price) / purchase_price * 100 of
\* that holding (0 only when purchase_price <= 0), so a holding whose current price
\* is below its purchase price receives loss points and can fire the loss sell
\* signal.
C25_GainLossOfHoldingUsed ==
    RunReturned =>
        /\ ret.raised = "none"
        /\ \A i \in 1..Len(args) :
              LET entry == StockEntryOf(args[i].symbol)
                  listed == ret.value.base_analysis.holdings_analysis[i]
              IN  /\ entry.gain_loss_percent = PyRound(HoldingGainLoss(args[i]), 10)
                  /\ entry.risk_score =
                         ClampRisk(PyRound(
                             ComponentSum(listed.individual_volatility,
                                          listed.weight, HoldingGainLoss(args[i])),
                             10))
                  /\ RLt(HoldingGainLoss(args[i]), RInt(-15)) =>
                         \E r \in 1..Len(entry.reasons) :
                             entry.reasons[r].reason = "Significant loss"

\* the gain/loss % each entry reports is 0, whatever the holding's prices
C25_GainLossAlwaysZero ==
    RunReturned =>
        /\ ret.raised = "none"
        /\ \A i \in 1..Len(args) :
              StockEntryOf(args[i].symbol).gain_loss_percent = Zero


---------------------------------------------------------------------------
(* The validator *)

ValidateReturned == pc = "done" /\ fn = "validate_portfolio"

\* what the core assumes of a holding
WellFormedHolding(h) ==
    /\ h.symbol # <<>>
    /\ \A i \in 1..Len(h.symbol) : h.symbol[i] \notin {"a"}
    /\ h.symbol[1] # " "
    /\ h.symbol[Len(h.symbol)] # " "
    /\ RLt(Zero, h.quantity)
    /\ RLe(Zero, h.purchase_price)

\* a given holding that cannot be made well-formed: its symbol is nothing but
\* white space, its quantity is not above 0 or its price is below 0
Violating(holding) ==
    \/ "symbol" \notin DOMAIN holding
    \/ \A i \in 1..Len(holding.symbol) : holding.symbol[i] = " "
    \/ "quantity" \notin DOMAIN holding
    \/ ~RLt(Zero, holding.quantity)
    \/ "purchase_price" \notin DOMAIN holding
    \/ RLt(holding.purchase_price, Zero)

\* C26: every Holding accepted by the validator has a non-empty, upper-cased,
\* trimmed symbol, quantity > 0 and purchase_price >= 0; an input that would
\* violate any of these (a symbol made only of whitespace included) is rejected
\* with (False, None, message) instead of being passed on to the core.
C26_AcceptedHoldingsWellFormed ==
    ValidateReturned =>
        /\ ret.value.is_valid =>
              \A i \in 1..Len(ret.value.portfolio.holdings) :
                  WellFormedHolding(ret.value.portfolio.holdings[i])
        /\ (/\ "holdings" \in DOMAIN args
            /\ \E i \in 1..Len(args.holdings) : Violating(args.holdings[i])) =>
              /\ ~ret.value.is_valid
              /\ ret.value.portfolio = "None"
              /\ ret.value.error # "None"

\* apart from the symbol, the accepted holdings are as the claim says
C26_AcceptedQuantityAndPrice ==
    (ValidateReturned /\ ret.value.is_valid) =>
        \A i \in 1..Len(ret.value.portfolio.holdings) :
            LET h == ret.value.portfolio.holdings[i]
            IN  /\ RLt(Zero, h.quantity)
                /\ RLe(Zero, h.purchase_price)
                /\ h.symbol = uppercase_symbol(args.holdings[i].symbol)


---------------------------------------------------------------------------
(* Requests served at the same time *)

\* what a core function gives when nothing else runs
RunAlone(function, arguments) ==
    CASE function = "analyze_portfolio_risk" -> analyze_portfolio_risk(arguments)
      [] function = "simulate_scenario" ->
            simulate_scenario(arguments.scenario_type,
                              arguments.current_portfolio_value,
                              arguments.current_risk_score, arguments.stock_symbol,
                              arguments.change_amount)
      [] function = "analyze_all_stocks" -> Returned(analyze_all_stocks(arguments))

\* C28: for any interleaving of two analyze_portfolio_risk / simulate_scenario /
\* analyze_all_stocks requests on separate holdings snapshots, each request's
\* result equals the result it produces when run alone.
C28_ResultAsWhenRunAlone ==
    pc = "serving" =>
        \A r \in Requests :
            frame.at[r] = "returned" => ret[r] = RunAlone(fn[r], args[r])

\* both requests ran the same function on different arguments, the second one
\* computing between the two steps of the first, and their results differ
C28_Witness ==
    /\ pc = "serving"
    /\ \A r \in Requests : frame.at[r] = "returned"
    /\ fn["first"] = fn["second"]
    /\ args["first"] # args["second"]
    /\ frame.schedule = <<"first", "second", "first", "second">>
    /\ ret["first"] # ret["second"]
    /\ ret["first"] = RunAlone(fn["first"], args["first"])

====
